---- MODULE Spec2Model ----
(***************************************************************************)
(* A model of toydb's query-execution core: the packed three-valued        *)
(* predicate result vector, the predicate expression tree with its two     *)
(* evaluation modes, and the nested-loop join operator running over mock   *)
(* child operators, the columnar buffers (ColumnBuffer, NullBitmap,        *)
(* RowVector) and the CSV file reader.                                     *)
(*                                                                         *)
(* Each component has its own specification (SpecBitmask, SpecPred,        *)
(* SpecJoin, FairSpecJoin, SpecColumn, SpecRowVector, SpecCsv); a          *)
(* specification leaves the variables of the other components at their     *)
(* idle values.                                                            *)
(***************************************************************************)
EXTENDS Integers, Sequences, FiniteSets, TLC

VARIABLES
    NDEBUG,             \* TRUE: release build (tdb_assert compiled out)
    \* ---- BitmaskResult component
    lhs,                \* the vector combineAnd/combineOr is called on
    rhs,                \* the `other` argument
    lastCombine,        \* the last call made: its name and both arguments before it
    \* ---- predicate expression component
    pred,               \* the predicate tree under evaluation
    buffer,             \* the RowVectorBuffer it is evaluated against
    indexMapInitialized,\* initializeIndexMap() has been called on the root
    evalRes,            \* result of the last evaluate(buffer), or NotEvaluated
    rowRes,             \* the last evaluateRow(buffer, row) call and how it ended
    \* ---- nested-loop join component
    draft,              \* which header is built: "join.hpp" or "nested_loop_join.hpp"
    loopElided,         \* the build dropped the side-effect-free while loop
    left_,              \* build child (a MockOperator)
    right_,             \* probe child (a MockOperator)
    predicate_,         \* the join predicate
    materializedLeft_,  \* the materialized build batches
    pc,                 \* where the caller / the running next() is
    totalOutputRows,    \* local of next
    rightVector,        \* local of next
    rightCount,         \* local of next
    out,                \* row count of the caller's output buffer
    ret,                \* value returned by the last completed next
    calls,              \* number of next calls that returned
    delivered,          \* rows returned so far, summed over the calls
    buildNextCalls,     \* number of left_->next calls made so far
    buildCallsAtFirstReturn, \* buildNextCalls when the first next returned
    listAtFirstReturn,  \* materializedLeft_ when the first next returned
    undefinedAccess,    \* an out-of-bounds object was accessed
    \* ---- ColumnBuffer component
    colBuf,             \* the ColumnBuffer under test
    columnSt,           \* "ok", or how the process ended ("ABORT", "CRASH")
    lastWrite,          \* the last call made on colBuf, and its count before it
    contractKept,       \* every call so far met its documented precondition
    \* ---- RowVector component
    rowVec,             \* the RowVector under test
    \* ---- CSV reader component
    file,               \* the file on disk: its lines, or NoFile
    reader,             \* the CsvDataFileReader
    outVec,             \* the RowVector the caller passes to readBatch
    csvSt,              \* "ok", or how the process ended ("ABORT", "THROWN")
    rowsOut,            \* rows returned since construction or the last reset()
    lastRead,           \* the last call made on the reader and what it returned
    resets,             \* number of reset() calls made
    pool_,              \* the buffers the BufferManager owns, each named by its number
    available_,         \* the free list of the BufferManager
    handles,            \* the BufferHandle objects: manager_, buffer_, and whether alive
    lastAlloc,          \* the last call made on the BufferManager or a handle
    ast,                \* the SelectFrom statement handed to SQLInterpreter::interpret
    planRes,            \* what interpret returned or threw
    input,              \* the tokens of the line the REPL read last
    printed,            \* what the REPL printed for that line
    replPc,             \* "prompt" while the REPL waits for a line, or how it ended
    fd,                 \* the fd field of each Lockfile object
    openFiles,          \* the open file descriptions the open calls created, and which holds the flock
    lockfile,           \* the lines of the file at the path of the lock
    lockers,            \* of each Lockfile object: whether it is alive or blocked in flock, what its last lock() returned, and whether unlock() was called since
    lastLock,           \* the last call made on a Lockfile object
    manifest,           \* the tables of the manifest file
    tables_by_name_,    \* JsonCatalogManifest::tables_by_name_
    tables_by_id_,      \* JsonCatalogManifest::tables_by_id_
    loaded_             \* what parseManifest returned

predVars == <<pred, buffer, indexMapInitialized, evalRes, rowRes>>
bitmaskVars == <<lhs, rhs, lastCombine>>
joinVars == <<draft, loopElided, left_, right_, predicate_, materializedLeft_, pc,
              totalOutputRows, rightVector, rightCount, out, ret, calls,
              delivered, buildNextCalls, buildCallsAtFirstReturn, listAtFirstReturn,
              undefinedAccess>>
columnVars == <<colBuf, columnSt, lastWrite, contractKept>>
csvVars == <<file, reader, outVec, csvSt, rowsOut, lastRead, resets>>
storeVars == <<columnVars, rowVec, csvVars>>
\* the memory, lock, parser, planner and catalog components
memVars == <<pool_, available_, handles, lastAlloc>>
planVars == <<ast, planRes>>
parseVars == <<input, printed, replPc>>
lockVars == <<fd, openFiles, lockfile, lockers, lastLock>>
catalogVars == <<manifest, tables_by_name_, tables_by_id_, loaded_>>
extVars == <<memVars, planVars, parseVars, lockVars, catalogVars>>
allButMem == <<NDEBUG, bitmaskVars, predVars, joinVars, storeVars, planVars, parseVars, lockVars, catalogVars>>
allButPlan == <<NDEBUG, bitmaskVars, predVars, joinVars, storeVars, memVars, parseVars, lockVars, catalogVars>>
allButParse == <<NDEBUG, bitmaskVars, predVars, joinVars, storeVars, memVars, planVars, lockVars, catalogVars>>
allButLock == <<NDEBUG, bitmaskVars, predVars, joinVars, storeVars, memVars, planVars, parseVars, catalogVars>>
allButCatalog == <<NDEBUG, bitmaskVars, predVars, joinVars, storeVars, memVars, planVars, parseVars, lockVars>>
vars == <<NDEBUG, bitmaskVars, predVars, joinVars, storeVars, extVars>>

(***************************************************************************)
(* Bounds of the model.                                                    *)
(***************************************************************************)
MaxVecSize == 5       \* longest result vector (spans two packed bytes)
MaxRows == 2          \* rows a child operator holds in total
MaxBatches == 2       \* batches a child operator splits its rows into
MaxBufRows == 2       \* rows of a batch a predicate is evaluated against
MaxCalls == 2         \* calls of the join's next a caller makes

(***************************************************************************)
(* uint8_t arithmetic.                                                     *)
(***************************************************************************)
\* 1 << k, for k in 0..7
Shl1(k) == <<1, 2, 4, 8, 16, 32, 64, 128>>[k + 1]

\* a & b, bit by bit from the least significant bit
RECURSIVE BitAnd8(_, _)
BitAnd8(a, b) ==
    IF a = 0 \/ b = 0 THEN 0
    ELSE (a % 2) * (b % 2) + 2 * BitAnd8(a \div 2, b \div 2)

\* a | b
BitOr8(a, b) == a + b - BitAnd8(a, b)

\* ~m as seen through a uint8_t operand: the low eight bits of the complement
BitNot8(m) == 255 - m

(***************************************************************************)
(* PredicateValue and BitmaskResult (engine/predicate_result.hpp).         *)
(***************************************************************************)
PredicateValue == {"FALSE", "TRUE", "NULL_VALUE"}

TRUE_MASK == 1
NULL_MASK == 2

\* BitmaskResult(size): two bits per row, four rows per byte, all zero
BitmaskResult(size) ==
    [bits_ |-> [b \in 0 .. ((size + 3) \div 4) - 1 |-> 0], size_ |-> size]

setBit(r, index, mask, value) ==
    LET byteIdx   == index \div 4
        bitOffset == (index % 4) * 2
        m         == mask * Shl1(bitOffset)
    IN  [r EXCEPT !.bits_[byteIdx] =
            IF value THEN BitOr8(@, m) ELSE BitAnd8(@, BitNot8(m))]

getBit(r, index, mask) ==
    LET byteIdx   == index \div 4
        bitOffset == (index % 4) * 2
    IN  BitAnd8(r.bits_[byteIdx], mask * Shl1(bitOffset)) # 0

setTrue(r, index)  == setBit(setBit(r, index, TRUE_MASK, TRUE), index, NULL_MASK, FALSE)

setFalse(r, index) == setBit(setBit(r, index, TRUE_MASK, FALSE), index, NULL_MASK, FALSE)

setNull(r, index)  == setBit(setBit(r, index, TRUE_MASK, FALSE), index, NULL_MASK, TRUE)

get(r, index) ==
    IF getBit(r, index, NULL_MASK) THEN "NULL_VALUE"
    ELSE IF getBit(r, index, TRUE_MASK) THEN "TRUE" ELSE "FALSE"

isTrue(r, index) == get(r, index) = "TRUE"

set(r, index, value) ==
    CASE value = "TRUE"       -> setTrue(r, index)
      [] value = "FALSE"      -> setFalse(r, index)
      [] value = "NULL_VALUE" -> setNull(r, index)

RECURSIVE setAllFrom(_, _, _)
setAllFrom(r, value, i) ==
    IF i < r.size_ THEN setAllFrom(set(r, i, value), value, i + 1) ELSE r

setAll(r, value) == setAllFrom(r, value, 0)

count(r) == Cardinality({i \in 0 .. r.size_ - 1 : isTrue(r, i)})

\* A variant of the loop body that tests for NULL before FALSE (not the code's order):
\* NULL AND FALSE would come out NULL
combineAndEntryNullFirst(r, other, i) ==
    LET left  == get(r, i)
        right == get(other, i)
    IN  IF left = "NULL_VALUE" \/ right = "NULL_VALUE" THEN setNull(r, i)
        ELSE IF left = "FALSE" \/ right = "FALSE" THEN setFalse(r, i)
        ELSE setTrue(r, i)

\* one iteration of combineAnd's loop body
combineAndEntry(r, other, i) ==
    LET left  == get(r, i)
        right == get(other, i)
    IN  IF left = "FALSE" \/ right = "FALSE" THEN setFalse(r, i)
        ELSE IF left = "NULL_VALUE" \/ right = "NULL_VALUE" THEN setNull(r, i)
        ELSE setTrue(r, i)

RECURSIVE combineAndFrom(_, _, _)
combineAndFrom(r, other, i) ==
    IF i < r.size_ /\ i < other.size_
    THEN combineAndFrom(combineAndEntry(r, other, i), other, i + 1)
    ELSE r

combineAnd(r, other) == combineAndFrom(r, other, 0)

\* one iteration of combineOr's loop body
combineOrEntry(r, other, i) ==
    LET left  == get(r, i)
        right == get(other, i)
    IN  IF left = "TRUE" \/ right = "TRUE" THEN setTrue(r, i)
        ELSE IF left = "NULL_VALUE" \/ right = "NULL_VALUE" THEN setNull(r, i)
        ELSE setFalse(r, i)

\* A variant of combineOr's loop that stops one entry before the end (not the code's
\* bound): the last entry of the left vector would keep its old value
RECURSIVE combineOrFromSkipLast(_, _, _)
combineOrFromSkipLast(r, other, i) ==
    IF i < r.size_ - 1 /\ i < other.size_
    THEN combineOrFromSkipLast(combineOrEntry(r, other, i), other, i + 1)
    ELSE r

RECURSIVE combineOrFrom(_, _, _)
combineOrFrom(r, other, i) ==
    IF i < r.size_ /\ i < other.size_
    THEN combineOrFrom(combineOrEntry(r, other, i), other, i + 1)
    ELSE r

combineOr(r, other) == combineOrFrom(r, other, 0)

(***************************************************************************)
(* LogicalExpr::evaluateRow's three-valued connectives                     *)
(* (engine/predicate_expr.hpp), applied to the two child values.           *)
(***************************************************************************)
LogicalExpr_apply(op_, leftVal, rightVal) ==
    IF op_ = "AND" THEN
        IF leftVal = "FALSE" \/ rightVal = "FALSE" THEN "FALSE"
        ELSE IF leftVal = "NULL_VALUE" \/ rightVal = "NULL_VALUE" THEN "NULL_VALUE"
        ELSE "TRUE"
    ELSE IF op_ = "OR" THEN
        IF leftVal = "TRUE" \/ rightVal = "TRUE" THEN "TRUE"
        ELSE IF leftVal = "NULL_VALUE" \/ rightVal = "NULL_VALUE" THEN "NULL_VALUE"
        ELSE "FALSE"
    ELSE "FALSE"

(***************************************************************************)
(* Predicate expression trees (engine/predicate_expr.hpp).  A node is a    *)
(* record carrying its class name and its members.  The batch a predicate  *)
(* is evaluated against has columns with members columnId_, type_, count,  *)
(* data and nullBitmap (a set bit marks a valid entry), and a row count.   *)
(* C++ indices are zero-based; sequences here are one-based.               *)
(***************************************************************************)
DataType == {"NULL_CONST", "INT32", "INT64", "DOUBLE", "BOOL", "STRING"}

CompareOp == {"EQUAL", "NOT_EQUAL", "GREATER", "LESS", "GREATER_EQUAL", "LESS_EQUAL",
              "AND", "OR", "NOT"}

\* an empty std::unordered_map<ColumnId, int32_t>
EmptyMap == [c \in {} |-> 0]

ColumnRefExpr(columnId) ==
    [kind |-> "ColumnRefExpr", columnId_ |-> columnId, columnIndex_ |-> -1,
     columnIndexMap_ |-> EmptyMap]

ConstantExpr(type, value) ==
    [kind |-> "ConstantExpr", type_ |-> type, value_ |-> value,
     columnIndexMap_ |-> EmptyMap]

\* ConstantExpr(): the NULL literal; its value is never read
NullConstantExpr == ConstantExpr("NULL_CONST", 0)

CompareExpr(op, type, left, right) ==
    [kind |-> "CompareExpr", op_ |-> op, type_ |-> type, left_ |-> left,
     right_ |-> right, columnIndexMap_ |-> EmptyMap]

LogicalExpr(op, left, right) ==
    [kind |-> "LogicalExpr", op_ |-> op, left_ |-> left, right_ |-> right,
     columnIndexMap_ |-> EmptyMap]

ConstantExpr_isNull(e) == e.type_ = "NULL_CONST"

\* insert(leftMap) followed by the insert-if-absent loop over rightMap
MergeMaps(leftMap, rightMap) ==
    [c \in (DOMAIN leftMap) \cup (DOMAIN rightMap) |->
        IF c \in DOMAIN leftMap THEN leftMap[c] ELSE rightMap[c]]

\* initializeIndexMap: the nextIndex counter is handed down the tree, but no node
\* reads or advances it, so it is left out.  ColumnRefExpr's override has an empty
\* body: neither columnIndex_ nor columnIndexMap_ is assigned
RECURSIVE initializeIndexMap(_)
initializeIndexMap(e) ==
    CASE e.kind = "ColumnRefExpr" -> e
      [] e.kind = "ConstantExpr"  -> [e EXCEPT !.columnIndexMap_ = EmptyMap]
      [] OTHER ->
            LET l == initializeIndexMap(e.left_)
                r == initializeIndexMap(e.right_)
            IN  [e EXCEPT !.left_ = l,
                          !.right_ = r,
                          !.columnIndexMap_ = MergeMaps(l.columnIndexMap_, r.columnIndexMap_)]

\* the conditions assertIndexMapValid asserts
assertIndexMapValid(e, buf) ==
    /\ Cardinality(DOMAIN e.columnIndexMap_) = Len(buf.columns_)
    /\ \A i \in 0 .. Len(buf.columns_) - 1 :
          LET col == buf.columns_[i + 1]
          IN  /\ col.columnId_ \in DOMAIN e.columnIndexMap_
              /\ e.columnIndexMap_[col.columnId_] = i

\* What a call ends in besides a value: "ABORT" is a failed tdb_assert in a build
\* without NDEBUG; with NDEBUG the assertion is compiled out and the access that
\* follows is undefined, ending in whatever the parameter ub names
UBOutcomes == PredicateValue \cup {"CRASH"}

Failed(v) == v \in {"ABORT", "CRASH"}

\* RowVector::getColumn(index): "ok", or how the out-of-range access ends
getColumnStatus(buf, index, ndebug) ==
    IF index >= 0 /\ index < Len(buf.columns_) THEN "ok"
    ELSE IF ndebug THEN "UB" ELSE "ABORT"

\* the null test made on a column entry: the bitmap bit of the row is 0
entryIsNull(col, rowIndex) == ~col.nullBitmap[rowIndex + 1]

ColumnRefExpr_evaluateRow(e, buf, rowIndex, ndebug, ub) ==
    LET status == getColumnStatus(buf, e.columnIndex_, ndebug)
    IN  IF status = "ABORT" THEN "ABORT"
        ELSE IF status = "UB" THEN ub
        ELSE IF entryIsNull(buf.columns_[e.columnIndex_ + 1], rowIndex) THEN "NULL_VALUE"
        ELSE "TRUE"

ConstantExpr_evaluateRow(e) == IF ConstantExpr_isNull(e) THEN "NULL_VALUE" ELSE "TRUE"

compareValues(op_, left, right, leftNull, rightNull) ==
    IF leftNull \/ rightNull THEN "NULL_VALUE"
    ELSE IF op_ \notin {"EQUAL", "NOT_EQUAL", "GREATER", "LESS", "GREATER_EQUAL", "LESS_EQUAL"}
    THEN "NULL_VALUE"
    ELSE LET result == CASE op_ = "EQUAL"         -> left = right
                         [] op_ = "NOT_EQUAL"     -> left # right
                         [] op_ = "GREATER"       -> left > right
                         [] op_ = "LESS"          -> left < right
                         [] op_ = "GREATER_EQUAL" -> left >= right
                         [] op_ = "LESS_EQUAL"    -> left <= right
         IN  IF result THEN "TRUE" ELSE "FALSE"

\* the DataType a template instantiation of extractValue accepts
TypeOfT(T) == IF T = "int64_t" THEN "INT64" ELSE "DOUBLE"

\* extractValue<T>: st is "ok" when the call returns, and then ok is the returned
\* flag, isNull and value the two out-parameters (value keeps the caller's 0 when
\* it is not assigned)
extractValue(expr, buf, rowIndex, T, ndebug) ==
    IF expr.kind = "ColumnRefExpr" THEN
        LET status == getColumnStatus(buf, expr.columnIndex_, ndebug)
        IN  IF status # "ok"
            THEN [st |-> status, ok |-> FALSE, isNull |-> FALSE, value |-> 0]
            ELSE LET col == buf.columns_[expr.columnIndex_ + 1]
                 IN  IF entryIsNull(col, rowIndex)
                     THEN [st |-> "ok", ok |-> FALSE, isNull |-> TRUE, value |-> 0]
                     ELSE IF col.type_ = TypeOfT(T)
                     THEN [st |-> "ok", ok |-> TRUE, isNull |-> FALSE,
                           value |-> col.data[rowIndex + 1]]
                     ELSE [st |-> "ok", ok |-> FALSE, isNull |-> TRUE, value |-> 0]
    ELSE IF expr.kind = "ConstantExpr" THEN
        IF ConstantExpr_isNull(expr)
        THEN [st |-> "ok", ok |-> FALSE, isNull |-> TRUE, value |-> 0]
        ELSE IF expr.type_ = TypeOfT(T)
        THEN [st |-> "ok", ok |-> TRUE, isNull |-> FALSE, value |-> expr.value_]
        ELSE [st |-> "ok", ok |-> FALSE, isNull |-> TRUE, value |-> 0]
    ELSE \* tdb_unreachable("Unsupported expression type")
        [st |-> IF ndebug THEN "UB" ELSE "ABORT", ok |-> FALSE, isNull |-> FALSE, value |-> 0]

\* the body shared by the two branches of evaluateComparison
evaluateComparisonAs(e, buf, rowIndex, T, ndebug, ub) ==
    LET l == extractValue(e.left_, buf, rowIndex, T, ndebug)
        r == extractValue(e.right_, buf, rowIndex, T, ndebug)
    IN  IF l.st = "ABORT" THEN "ABORT"
        ELSE IF l.st = "UB" THEN ub
        ELSE IF r.st = "ABORT" THEN "ABORT"
        ELSE IF r.st = "UB" THEN ub
        ELSE IF l.ok /\ r.ok
        THEN compareValues(e.op_, l.value, r.value, l.isNull, r.isNull)
        ELSE "NULL_VALUE"

evaluateComparison(e, buf, rowIndex, ndebug, ub) ==
    IF e.type_ = "INT64" THEN evaluateComparisonAs(e, buf, rowIndex, "int64_t", ndebug, ub)
    ELSE IF e.type_ = "DOUBLE" THEN evaluateComparisonAs(e, buf, rowIndex, "double", ndebug, ub)
    ELSE "NULL_VALUE"

\* evaluateRow, dispatched on the node's class
RECURSIVE evaluateRow(_, _, _, _, _)
evaluateRow(e, buf, rowIndex, ndebug, ub) ==
    CASE e.kind = "ColumnRefExpr" -> ColumnRefExpr_evaluateRow(e, buf, rowIndex, ndebug, ub)
      [] e.kind = "ConstantExpr"  -> ConstantExpr_evaluateRow(e)
      [] e.kind = "CompareExpr"   -> evaluateComparison(e, buf, rowIndex, ndebug, ub)
      [] e.kind = "LogicalExpr"   ->
            LET leftVal == evaluateRow(e.left_, buf, rowIndex, ndebug, ub)
            IN  IF Failed(leftVal) THEN leftVal
                ELSE LET rightVal == evaluateRow(e.right_, buf, rowIndex, ndebug, ub)
                     IN  IF Failed(rightVal) THEN rightVal
                         ELSE LogicalExpr_apply(e.op_, leftVal, rightVal)

\* How a vectorized evaluate ends: st is "ok" with the returned vector, or "ABORT" or
\* "CRASH" with none
Returned(vec) == [st |-> "ok", vec |-> vec]

Ended(st) == [st |-> st, vec |-> BitmaskResult(0)]

\* an undefined access inside evaluate: a crash, or a vector of arbitrary content
UndefinedResult(buf, ub) ==
    IF ub = "CRASH" THEN Ended("CRASH")
    ELSE Returned(setAll(BitmaskResult(buf.rowCount_), ub))

\* ColumnRefExpr::evaluate's loop over the col.count entries of the column
RECURSIVE columnRowsFrom(_, _, _, _)
columnRowsFrom(col, buf, result, i) ==
    IF i < col.count
    THEN columnRowsFrom(col, buf,
             set(result, i, IF entryIsNull(col, i) THEN "NULL_VALUE" ELSE "TRUE"), i + 1)
    ELSE result

ColumnRefExpr_evaluate(e, buf, ndebug, ub) ==
    LET status == getColumnStatus(buf, e.columnIndex_, ndebug)
    IN  IF status = "ABORT" THEN Ended("ABORT")
        ELSE IF status = "UB" THEN UndefinedResult(buf, ub)
        ELSE LET col == buf.columns_[e.columnIndex_ + 1]
             IN  Returned(columnRowsFrom(col, buf, BitmaskResult(col.count), 0))

\* ConstantExpr::evaluate: setAll is called once per row
ConstantExpr_evaluate(e, buf) ==
    LET rowCount == buf.rowCount_
        value    == IF ConstantExpr_isNull(e) THEN "NULL_VALUE" ELSE "TRUE"
    IN  Returned(IF rowCount > 0 THEN setAll(BitmaskResult(rowCount), value)
                 ELSE BitmaskResult(rowCount))

\* CompareExpr::evaluate's loop over the rows of the batch
RECURSIVE compareRowsFrom(_, _, _, _, _, _)
compareRowsFrom(e, buf, result, i, ndebug, ub) ==
    IF i < buf.rowCount_
    THEN LET v == evaluateComparison(e, buf, i, ndebug, ub)
         IN  IF Failed(v) THEN Ended(v)
             ELSE compareRowsFrom(e, buf, set(result, i, v), i + 1, ndebug, ub)
    ELSE Returned(result)

CompareExpr_evaluate(e, buf, ndebug, ub) ==
    IF ~ndebug /\ ~assertIndexMapValid(e, buf) THEN Ended("ABORT")
    ELSE compareRowsFrom(e, buf, BitmaskResult(buf.rowCount_), 0, ndebug, ub)

\* evaluate, dispatched on the node's class
RECURSIVE evaluate(_, _, _, _)
evaluate(e, buf, ndebug, ub) ==
    CASE e.kind = "ColumnRefExpr" -> ColumnRefExpr_evaluate(e, buf, ndebug, ub)
      [] e.kind = "ConstantExpr"  -> ConstantExpr_evaluate(e, buf)
      [] e.kind = "CompareExpr"   -> CompareExpr_evaluate(e, buf, ndebug, ub)
      [] e.kind = "LogicalExpr"   ->
            IF ~ndebug /\ ~assertIndexMapValid(e, buf) THEN Ended("ABORT")
            ELSE LET leftResult == evaluate(e.left_, buf, ndebug, ub)
                 IN  IF leftResult.st # "ok" THEN leftResult
                     ELSE LET rightResult == evaluate(e.right_, buf, ndebug, ub)
                          IN  IF rightResult.st # "ok" THEN rightResult
                              ELSE IF e.op_ = "AND"
                              THEN Returned(combineAnd(leftResult.vec, rightResult.vec))
                              ELSE IF e.op_ = "OR"
                              THEN Returned(combineOr(leftResult.vec, rightResult.vec))
                              ELSE Returned(leftResult.vec)

(***************************************************************************)
(* Idle values of the components a specification does not exercise.        *)
(***************************************************************************)
NoVector == BitmaskResult(0)
NoCombine == [op |-> "none", left |-> NoVector, right |-> NoVector, rows |-> <<>>]

BitmaskIdle ==
    /\ lhs = NoVector
    /\ rhs = NoVector
    /\ lastCombine = NoCombine

NotEvaluated == [st |-> "none", vec |-> NoVector]

NoRow == [row |-> -1, val |-> "none"]

PredIdle ==
    /\ pred = <<>>
    /\ buffer = <<>>
    /\ indexMapInitialized = FALSE
    /\ evalRes = NotEvaluated
    /\ rowRes = NoRow

JoinIdle ==
    /\ draft = "none"
    /\ loopElided = FALSE
    /\ left_ = <<>>
    /\ right_ = <<>>
    /\ predicate_ = <<>>
    /\ materializedLeft_ = <<>>
    /\ pc = "idle"
    /\ totalOutputRows = 0
    /\ rightVector = <<>>
    /\ rightCount = 0
    /\ out = 0
    /\ ret = 0
    /\ calls = 0
    /\ delivered = 0
    /\ buildNextCalls = 0
    /\ buildCallsAtFirstReturn = 0
    /\ listAtFirstReturn = <<>>
    /\ undefinedAccess = FALSE

NoCall == [op |-> "none"]

\* the same components at rest
MemIdle ==
    /\ pool_ = <<>>
    /\ available_ = <<>>
    /\ handles = <<>>
    /\ lastAlloc = NoCall

PlanIdle ==
    /\ ast = <<>>
    /\ planRes = <<>>

ParseIdle ==
    /\ input = <<>>
    /\ printed = <<>>
    /\ replPc = "prompt"

LockIdle ==
    /\ fd = <<>>
    /\ openFiles = <<>>
    /\ lockfile = <<>>
    /\ lockers = <<>>
    /\ lastLock = NoCall

CatalogIdle ==
    /\ manifest = <<>>
    /\ tables_by_name_ = <<>>
    /\ tables_by_id_ = <<>>
    /\ loaded_ = FALSE

ExtIdle ==
    /\ MemIdle
    /\ PlanIdle
    /\ ParseIdle
    /\ LockIdle
    /\ CatalogIdle

RestIdleMem ==
    /\ PlanIdle
    /\ ParseIdle
    /\ LockIdle
    /\ CatalogIdle

RestIdlePlan ==
    /\ MemIdle
    /\ ParseIdle
    /\ LockIdle
    /\ CatalogIdle

RestIdleParse ==
    /\ MemIdle
    /\ PlanIdle
    /\ LockIdle
    /\ CatalogIdle

RestIdleLock ==
    /\ MemIdle
    /\ PlanIdle
    /\ ParseIdle
    /\ CatalogIdle

RestIdleCatalog ==
    /\ MemIdle
    /\ PlanIdle
    /\ ParseIdle
    /\ LockIdle

StoreIdle ==
    /\ ExtIdle
    /\ colBuf = <<>>
    /\ columnSt = "ok"
    /\ lastWrite = NoCall
    /\ contractKept = TRUE
    /\ rowVec = <<>>
    /\ file = <<>>
    /\ reader = <<>>
    /\ outVec = <<>>
    /\ csvSt = "ok"
    /\ rowsOut = <<>>
    /\ lastRead = NoCall
    /\ resets = 0

(***************************************************************************)
(* Specification SpecBitmask: two result vectors are filled entry by       *)
(* entry and combined in place, repeatedly.                                *)
(***************************************************************************)
VecSizes == 0 .. MaxVecSize

\* rhs sizes tried against a left vector of size n: equal, one shorter, one longer
OtherSizes(n) == {n - 1, n, n + 1} \cap VecSizes

\* A vector is filled by one set call per entry, as an evaluate() does; entry i
\* receives the value at position ((i div d) + k) mod 3 of FALSE, TRUE, NULL_VALUE.
\* The left vector is filled with d = 3 and the right one with d = 1, so that over
\* the choices of k every pair of values meets at every index
RECURSIVE fillFrom(_, _, _, _)
fillFrom(r, k, d, i) ==
    IF i < r.size_
    THEN fillFrom(set(r, i, <<"FALSE", "TRUE", "NULL_VALUE">>[(((i \div d) + k) % 3) + 1]),
                  k, d, i + 1)
    ELSE r

FillLeft(k) ==
    /\ lhs' = fillFrom(BitmaskResult(lhs.size_), k, 3, 0)
    /\ lastCombine' = NoCombine
    /\ UNCHANGED <<rhs, NDEBUG, predVars, joinVars, storeVars, extVars>>

FillRight(k) ==
    /\ rhs' = fillFrom(BitmaskResult(rhs.size_), k, 1, 0)
    /\ lastCombine' = NoCombine
    /\ UNCHANGED <<lhs, NDEBUG, predVars, joinVars, storeVars, extVars>>

\* lhs.combineAnd(rhs)
CombineAnd ==
    /\ lhs' = combineAnd(lhs, rhs)
    /\ lastCombine' = [op |-> "combineAnd", left |-> lhs, right |-> rhs, rows |-> <<>>]
    /\ UNCHANGED <<rhs, NDEBUG, predVars, joinVars, storeVars, extVars>>

\* lhs.combineOr(rhs)
CombineOr ==
    /\ lhs' = combineOr(lhs, rhs)
    /\ lastCombine' = [op |-> "combineOr", left |-> lhs, right |-> rhs, rows |-> <<>>]
    /\ UNCHANGED <<rhs, NDEBUG, predVars, joinVars, storeVars, extVars>>

\* LogicalExpr::evaluateRow over children whose row values are the entries of
\* lhs and rhs: one call per row both vectors have
RowLogical(op_) ==
    /\ lastCombine' =
          [op    |-> op_,
           left  |-> lhs,
           right |-> rhs,
           rows  |-> [i \in {j \in 0 .. lhs.size_ - 1 : j < rhs.size_} |->
                         LogicalExpr_apply(op_, get(lhs, i), get(rhs, i))]]
    /\ UNCHANGED <<lhs, rhs, NDEBUG, predVars, joinVars, storeVars, extVars>>

InitBitmask ==
    /\ NDEBUG = FALSE
    /\ \E n \in VecSizes :
          /\ lhs = BitmaskResult(n)
          /\ \E m \in OtherSizes(n) : rhs = BitmaskResult(m)
    /\ lastCombine = NoCombine
    /\ PredIdle
    /\ JoinIdle
    /\ StoreIdle

NextBitmask ==
    \/ \E k \in 0 .. 2 : FillLeft(k)
    \/ \E k \in 0 .. 2 : FillRight(k)
    \/ CombineAnd
    \/ CombineOr
    \/ \E op_ \in {"AND", "OR"} : RowLogical(op_)

SpecBitmask == InitBitmask /\ [][NextBitmask]_vars

(***************************************************************************)
(* Specification SpecPred: a predicate tree is built, its index map is     *)
(* initialized (or not), and it is evaluated against a batch in both       *)
(* modes.                                                                  *)
(***************************************************************************)
ColumnIds == {1, 2}

Values == {1, 2}

ComparisonOps == {"EQUAL", "NOT_EQUAL", "GREATER", "LESS", "GREATER_EQUAL", "LESS_EQUAL"}

Leaves ==
    {ColumnRefExpr(c) : c \in ColumnIds}
       \cup {ConstantExpr("INT64", v) : v \in Values}
       \cup {ConstantExpr("DOUBLE", 1), NullConstantExpr}

\* every comparison over the leaves at operand type INT64, and some at the other
\* operand types and with an operator that is no comparison
Compares ==
    {CompareExpr(op, "INT64", l, r) : op \in ComparisonOps, l \in Leaves, r \in Leaves}
       \cup {CompareExpr(op, "DOUBLE", ConstantExpr("DOUBLE", 1), r) :
                 op \in {"EQUAL", "LESS"}, r \in Leaves}
       \cup {CompareExpr("EQUAL", "INT32", ConstantExpr("INT32", 1), ConstantExpr("INT32", 1)),
             CompareExpr("AND", "INT64", ConstantExpr("INT64", 1), ConstantExpr("INT64", 1))}

\* operands of the logical nodes: comparisons that are TRUE, FALSE and NULL, two
\* that read columns, and a nested logical node
LogicalOperands ==
    {CompareExpr("EQUAL", "INT64", ConstantExpr("INT64", 1), ConstantExpr("INT64", 1)),
     CompareExpr("LESS", "INT64", ConstantExpr("INT64", 2), ConstantExpr("INT64", 1)),
     CompareExpr("EQUAL", "INT64", NullConstantExpr, ConstantExpr("INT64", 1)),
     CompareExpr("GREATER", "INT64", ColumnRefExpr(1), ConstantExpr("INT64", 1)),
     CompareExpr("EQUAL", "INT64", ColumnRefExpr(2), ColumnRefExpr(1)),
     LogicalExpr("OR",
         CompareExpr("GREATER", "INT64", ColumnRefExpr(1), ConstantExpr("INT64", 1)),
         CompareExpr("EQUAL", "INT64", NullConstantExpr, ConstantExpr("INT64", 1)))}

Logicals ==
    {LogicalExpr(op, l, r) : op \in {"AND", "OR", "NOT"},
                             l \in LogicalOperands, r \in LogicalOperands}

Predicates == Leaves \cup Compares \cup Logicals

\* an INT64 column of n rows: row r of column c holds 1 or 2 by the parity of r + c,
\* and its entry is NULL where nulls says so
Column(c, n, nulls) ==
    [columnId_  |-> c,
     type_      |-> "INT64",
     count      |-> n,
     data       |-> [r \in 1 .. n |-> ((r + c) % 2) + 1],
     nullBitmap |-> [r \in 1 .. n |-> ~nulls[r]]]

\* the column layouts of a batch: no column, one, or two in either order
Layouts == {<<>>, <<1>>, <<1, 2>>, <<2, 1>>}

\* batches of n rows; the first column has no NULL, the others a NULL in row 0
Buffer(layout, n) ==
    [columns_  |-> [k \in 1 .. Len(layout) |->
                        Column(layout[k], n, [r \in 1 .. n |-> k > 1 /\ r = 1])],
     rowCount_ |-> n]

Buffers == {Buffer(layout, n) : layout \in Layouts, n \in 0 .. MaxBufRows}

\* the process is gone once a call aborted or crashed
PredRunning == ~Failed(evalRes.st) /\ ~Failed(rowRes.val)

\* the outcomes undefined behaviour can have in this build: none is reachable in a
\* build with assertions, where the failed assertion comes first
Undefined == IF NDEBUG THEN UBOutcomes ELSE {"CRASH"}

\* pred.initializeIndexMap(), called once and before any evaluation, as the callers do
InitializeIndexMap ==
    /\ ~indexMapInitialized
    /\ evalRes = NotEvaluated
    /\ rowRes = NoRow
    /\ pred' = initializeIndexMap(pred)
    /\ indexMapInitialized' = TRUE
    /\ UNCHANGED <<buffer, evalRes, rowRes, NDEBUG, bitmaskVars, joinVars, storeVars, extVars>>

\* pred.evaluate(buffer)
Evaluate(ub) ==
    /\ PredRunning
    /\ evalRes' = evaluate(pred, buffer, NDEBUG, ub)
    /\ UNCHANGED <<pred, buffer, indexMapInitialized, rowRes, NDEBUG, bitmaskVars, joinVars, storeVars, extVars>>

\* pred.evaluateRow(buffer, rowIndex)
EvaluateRow(rowIndex, ub) ==
    /\ PredRunning
    /\ rowIndex < buffer.rowCount_
    /\ rowRes' = [row |-> rowIndex, val |-> evaluateRow(pred, buffer, rowIndex, NDEBUG, ub)]
    /\ UNCHANGED <<pred, buffer, indexMapInitialized, evalRes, NDEBUG, bitmaskVars, joinVars, storeVars, extVars>>

InitPred ==
    /\ NDEBUG \in BOOLEAN
    /\ pred \in Predicates
    /\ buffer \in Buffers
    /\ indexMapInitialized = FALSE
    /\ evalRes = NotEvaluated
    /\ rowRes = NoRow
    /\ BitmaskIdle
    /\ JoinIdle
    /\ StoreIdle

NextPred ==
    \/ InitializeIndexMap
    \/ \E ub \in Undefined : Evaluate(ub)
    \/ \E rowIndex \in 0 .. MaxBufRows - 1, ub \in Undefined : EvaluateRow(rowIndex, ub)

SpecPred == InitPred /\ [][NextPred]_vars

(***************************************************************************)
(* RowVector (engine/physical_operator.hpp) and the MockOperator children  *)
(* of the join tests (test/test_helpers.hpp).                              *)
(***************************************************************************)
\* a RowVector without columns; rowCount is what its row count member holds
NewRowVector(rowCount) ==
    [columns_ |-> <<>>, columnIdToIndex_ |-> EmptyMap, rowCount_ |-> rowCount]

getColumnIndex(rv, colId) ==
    IF colId \in DOMAIN rv.columnIdToIndex_ THEN rv.columnIdToIndex_[colId] ELSE -1

setRowCount(rv, n) == [rv EXCEPT !.rowCount_ = n]

addColumn(rv, col) ==
    LET index == Len(rv.columns_)
    IN  [columns_         |-> Append(rv.columns_, col),
         columnIdToIndex_ |-> [c \in (DOMAIN rv.columnIdToIndex_) \cup {col.columnId_} |->
                                  IF c = col.columnId_ THEN index ELSE rv.columnIdToIndex_[c]],
         rowCount_        |-> IF rv.rowCount_ = 0 THEN col.count ELSE rv.rowCount_]

addOrReplaceColumn(rv, col) ==
    LET index == getColumnIndex(rv, col.columnId_)
    IN  IF index # -1 THEN [rv EXCEPT !.columns_[index + 1] = col]
        ELSE addColumn(rv, col)

RECURSIVE addColumnsFrom(_, _, _)
addColumnsFrom(rv, cols, k) ==
    IF k <= Len(cols) THEN addColumnsFrom(addColumn(rv, cols[k]), cols, k + 1) ELSE rv

RECURSIVE addOrReplaceColumnsFrom(_, _, _)
addOrReplaceColumnsFrom(rv, cols, k) ==
    IF k <= Len(cols) THEN addOrReplaceColumnsFrom(addOrReplaceColumn(rv, cols[k]), cols, k + 1)
    ELSE rv

\* ColumnBufferStorage::createIntColumn: an INT64 column over the values, no null bitmap
createIntColumn(values, colId) ==
    [columnId_  |-> colId,
     type_      |-> "INT64",
     count      |-> Len(values),
     data       |-> values,
     nullBitmap |-> [r \in 1 .. Len(values) |-> TRUE]]

\* the batch MockOperatorBuilder::build makes of the rows offset+1 .. offset+size
MockBatch(values, colId, offset, size) ==
    setRowCount(addColumn(NewRowVector(0),
                          createIntColumn(SubSeq(values, offset + 1, offset + size), colId)),
                size)

RECURSIVE splitFrom(_, _, _, _, _)
splitFrom(values, colId, batchSizes, k, rowOffset) ==
    IF k > Len(batchSizes) \/ rowOffset >= Len(values) THEN <<>>
    ELSE LET rest            == Len(values) - rowOffset
             actualBatchSize == IF batchSizes[k] < rest THEN batchSizes[k] ELSE rest
         IN  <<MockBatch(values, colId, rowOffset, actualBatchSize)>>
                \o splitFrom(values, colId, batchSizes, k + 1, rowOffset + actualBatchSize)

\* MockOperatorBuilder(...).addInt64Column(colId, values).withBatchSizes(batchSizes).build():
\* without batch sizes one batch holds all rows, even when there is none
MockOperator(values, colId, batchSizes) ==
    [batches_ |-> IF batchSizes = <<>> THEN <<MockBatch(values, colId, 0, Len(values))>>
                  ELSE splitFrom(values, colId, batchSizes, 1, 0),
     currentBatchIndex_ |-> 0]

\* MockOperator::next(out): the operator and out after the call, and the value returned
MockOperator_next(op, outVector) ==
    IF op.currentBatchIndex_ >= Len(op.batches_)
    THEN [op |-> op, out |-> outVector, rowCount |-> 0]
    ELSE LET batch == op.batches_[op.currentBatchIndex_ + 1]
         IN  [op       |-> [op EXCEPT !.currentBatchIndex_ = @ + 1],
              out      |-> setRowCount(addColumnsFrom(outVector, batch.columns_, 1),
                                       batch.rowCount_),
              rowCount |-> batch.rowCount_]

(***************************************************************************)
(* NestedLoopJoinExec.  Two headers define the class: engine/join.hpp,     *)
(* which evaluates the predicate, and engine/nested_loop_join.hpp, the one *)
(* the join tests include, whose next() stops at an empty loop.  A build   *)
(* contains one of them (draft).  next() is followed step by step: pc is   *)
(* "idle" before the first call, "materialize", "probe" and "loop" inside  *)
(* a call, "returned" after one, "aborted" after a failed assertion and    *)
(* "crashed" after an undefined access that ended the process.             *)
(***************************************************************************)
BUFFER_SIZE == 65536

DataType_getSize(type) ==
    CASE type = "INT32"  -> 4
      [] type = "INT64"  -> 8
      [] type = "DOUBLE" -> 8
      [] type = "BOOL"   -> 1
      [] type = "STRING" -> 256

RECURSIVE rowSizeFrom(_, _)
rowSizeFrom(cols, k) ==
    IF k <= Len(cols) THEN DataType_getSize(cols[k].type_) + rowSizeFrom(cols, k + 1) ELSE 0

\* one column of buildRepeatedRowBuffer: the entry of row rightRowIdx, copied
\* copiedRowCount times.  Only the entries below the row count of a build batch are
\* read afterwards, so data keeps MaxRows of them.  A column that rightVector still
\* holds from an earlier, shorter chunk has no row rightRowIdx: the bytes copied are
\* those behind its data, taken as 0.  The mock columns have no null bitmap
repeatedColumn(column, rightRowIdx, copiedRowCount) ==
    LET entry == IF rightRowIdx < Len(column.data) THEN column.data[rightRowIdx + 1] ELSE 0
    IN  [column EXCEPT !.data = [r \in 1 .. MaxRows |-> entry],
                       !.count = copiedRowCount,
                       !.nullBitmap = [r \in 1 .. MaxRows |-> TRUE]]

RECURSIVE repeatedColumnsFrom(_, _, _, _, _)
repeatedColumnsFrom(rv, cols, rightRowIdx, copiedRowCount, k) ==
    IF k <= Len(cols)
    THEN repeatedColumnsFrom(addColumn(rv, repeatedColumn(cols[k], rightRowIdx, copiedRowCount)),
                             cols, rightRowIdx, copiedRowCount, k + 1)
    ELSE rv

buildRepeatedRowBuffer(rightVec, rightRowIdx) ==
    LET rowSize        == rowSizeFrom(rightVec.columns_, 1)
        copiedRowCount == BUFFER_SIZE \div rowSize
    IN  setRowCount(repeatedColumnsFrom(NewRowVector(0), rightVec.columns_, rightRowIdx,
                                        copiedRowCount, 1),
                    copiedRowCount)

\* copyMatchedRows: the rows are counted, none is copied
copyMatchedRows(leftVector, predicateResults) ==
    Cardinality({i \in 0 .. leftVector.rowCount_ - 1 : isTrue(predicateResults, i)})

\* the loop over the materialized build batches for one probe row; the result is
\* how the loop ends and the total of matches so far
RECURSIVE leftBatchesFrom(_, _, _, _, _, _, _)
leftBatchesFrom(list, predicate, vectorizedBuffer, leftBatchIdx, total, ndebug, ub) ==
    IF leftBatchIdx < Len(list)
    THEN LET leftVector == list[leftBatchIdx + 1]
             vb  == setRowCount(addOrReplaceColumnsFrom(vectorizedBuffer, leftVector.columns_, 1),
                                leftVector.rowCount_)
             res == evaluate(predicate, vb, ndebug, ub)
         IN  IF res.st # "ok" THEN [st |-> res.st, total |-> total]
             ELSE leftBatchesFrom(list, predicate, vb, leftBatchIdx + 1,
                                  total + copyMatchedRows(leftVector, res.vec), ndebug, ub)
    ELSE [st |-> "ok", total |-> total]

\* the loop over the rows of one probe chunk
RECURSIVE rightRowsFrom(_, _, _, _, _, _, _, _)
rightRowsFrom(list, predicate, rightVec, rightCnt, rightRowIdx, total, ndebug, ub) ==
    IF rightRowIdx < rightCnt
    THEN LET r == leftBatchesFrom(list, predicate, buildRepeatedRowBuffer(rightVec, rightRowIdx),
                                  0, total, ndebug, ub)
         IN  IF r.st # "ok" THEN r
             ELSE rightRowsFrom(list, predicate, rightVec, rightCnt, rightRowIdx + 1, r.total,
                                ndebug, ub)
    ELSE [st |-> "ok", total |-> total]

\* a call of next is running
InNext == pc \in {"materialize", "probe", "loop"}

\* `return n` from next, with the caller's bookkeeping
ReturnFromNext(n) ==
    /\ pc' = "returned"
    /\ ret' = n
    /\ calls' = calls + 1
    /\ delivered' = delivered + n
    /\ buildCallsAtFirstReturn' = IF calls = 0 THEN buildNextCalls ELSE buildCallsAtFirstReturn
    /\ listAtFirstReturn' = IF calls = 0 THEN materializedLeft_ ELSE listAtFirstReturn

NoReturn == UNCHANGED <<ret, calls, delivered, buildCallsAtFirstReturn, listAtFirstReturn>>

\* the caller calls join.next(out): the first call, or another one after a call
\* that returned rows
CallNext ==
    /\ pc = "idle" \/ (pc = "returned" /\ ret > 0)
    /\ calls < MaxCalls
    /\ pc' = "materialize"
    /\ UNCHANGED <<draft, loopElided, left_, right_, predicate_, materializedLeft_,
                   totalOutputRows, rightVector, rightCount, out, undefinedAccess>>
    /\ NoReturn
    /\ UNCHANGED <<buildNextCalls, NDEBUG, bitmaskVars, predVars, storeVars, extVars>>

\* one iteration of the loop of materializeLeftSide / materializeBuildInput
MaterializeStep ==
    /\ pc = "materialize"
    /\ LET r == MockOperator_next(left_, NewRowVector(0))
       IN  /\ left_' = r.op
           /\ buildNextCalls' = buildNextCalls + 1
           /\ IF r.rowCount = 0
              THEN pc' = "probe" /\ UNCHANGED materializedLeft_
              ELSE pc' = "materialize" /\ materializedLeft_' = Append(materializedLeft_, r.out)
    /\ UNCHANGED <<draft, loopElided, right_, predicate_, totalOutputRows, rightVector,
                   rightCount, out, undefinedAccess>>
    /\ NoReturn
    /\ UNCHANGED <<NDEBUG, bitmaskVars, predVars, storeVars, extVars>>

\* from `int64_t totalOutputRows = 0` to the test of the first rightCount
ProbeFirst ==
    /\ pc = "probe"
    /\ LET r == MockOperator_next(right_, NewRowVector(0))
       IN  /\ right_' = r.op
           /\ rightVector' = r.out
           /\ rightCount' = r.rowCount
           /\ totalOutputRows' = 0
           /\ IF r.rowCount > 0
              THEN pc' = "loop" /\ UNCHANGED out /\ NoReturn
              ELSE /\ ReturnFromNext(0)
                   /\ out' = IF draft = "join.hpp" THEN out ELSE 0
    /\ UNCHANGED <<draft, loopElided, left_, predicate_, materializedLeft_, buildNextCalls,
                   undefinedAccess>>
    /\ UNCHANGED <<NDEBUG, bitmaskVars, predVars, storeVars, extVars>>

\* A variant that leaves the while loop after the first probe chunk, whatever the
\* probe child returned (not the code's test)
probeAlwaysBreak(rightCnt) == TRUE

\* `if (rightCount == 0) break;` at the end of the while loop of join.hpp
probeExhausted(rightCnt) == rightCnt = 0

\* one iteration of `while (true)` in join.hpp.  The debug call at its head reads
\* materializedLeft_[0]; with no build batch that element does not exist, and the
\* run either dies there (crash) or goes on
LoopIteration(ub, crash) ==
    /\ pc = "loop"
    /\ draft = "join.hpp"
    /\ undefinedAccess' = (undefinedAccess \/ materializedLeft_ = <<>>)
    /\ IF materializedLeft_ = <<>> /\ crash
       THEN /\ pc' = "crashed"
            /\ UNCHANGED <<right_, rightVector, rightCount, totalOutputRows, out>>
            /\ NoReturn
       ELSE LET m == rightRowsFrom(materializedLeft_, predicate_, rightVector, rightCount, 0,
                                   totalOutputRows, NDEBUG, ub)
                r == MockOperator_next(right_, rightVector)
            IN  IF m.st # "ok"
                THEN /\ pc' = IF m.st = "ABORT" THEN "aborted" ELSE "crashed"
                     /\ UNCHANGED <<right_, rightVector, rightCount, totalOutputRows, out>>
                     /\ NoReturn
                ELSE /\ totalOutputRows' = m.total
                     /\ right_' = r.op
                     /\ rightVector' = r.out
                     /\ rightCount' = r.rowCount
                     /\ IF probeExhausted(r.rowCount)
                        THEN out' = m.total /\ ReturnFromNext(m.total)
                        ELSE pc' = "loop" /\ UNCHANGED out /\ NoReturn
    /\ UNCHANGED <<draft, loopElided, left_, predicate_, materializedLeft_, buildNextCalls>>
    /\ UNCHANGED <<NDEBUG, bitmaskVars, predVars, storeVars, extVars>>

\* `while (rightCount > 0) { }` in nested_loop_join.hpp: nothing in the loop changes
\* rightCount, so the loop runs on without an effect
Spin ==
    /\ pc = "loop"
    /\ draft = "nested_loop_join.hpp"
    /\ ~loopElided
    /\ UNCHANGED vars

\* the same loop in a build whose compiler dropped it, as it may with a loop that has
\* no side effect: next goes on to setRowCount and returns
SkipLoop ==
    /\ pc = "loop"
    /\ draft = "nested_loop_join.hpp"
    /\ loopElided
    /\ out' = totalOutputRows
    /\ ReturnFromNext(totalOutputRows)
    /\ UNCHANGED <<draft, loopElided, left_, right_, predicate_, materializedLeft_,
                   totalOutputRows, rightVector, rightCount, buildNextCalls, undefinedAccess>>
    /\ UNCHANGED <<NDEBUG, bitmaskVars, predVars, storeVars, extVars>>

(***************************************************************************)
(* Specifications SpecJoin and FairSpecJoin: a join over two mock children *)
(* whose next is called until it returns 0.  The build child owns column 1 *)
(* and the probe child column 2; each holds a run of consecutive integers, *)
(* in one batch or split by batch sizes.                                   *)
(***************************************************************************)
\* NestedLoopJoinTest::createSequence
createSequence(start, n) == [i \in 1 .. n |-> start + i - 1]

BatchSizeChoices == {<<>>} \cup {[k \in 1 .. MaxBatches |-> b] : b \in 1 .. MaxRows}

Children(colId) ==
    {MockOperator(createSequence(start, n), colId, batchSizes) :
        start \in {1, 2}, n \in 0 .. MaxRows, batchSizes \in BatchSizeChoices}

\* the equality predicate of the join tests, predicates over constants that are
\* always TRUE, never TRUE and always NULL, and a constant standing alone
EqualityPredicate == CompareExpr("EQUAL", "INT64", ColumnRefExpr(1), ColumnRefExpr(2))

JoinPredicates ==
    {EqualityPredicate,
     CompareExpr("EQUAL", "INT64", ConstantExpr("INT64", 1), ConstantExpr("INT64", 1)),
     CompareExpr("LESS", "INT64", ConstantExpr("INT64", 1), ConstantExpr("INT64", 1)),
     ConstantExpr("INT64", 1),
     NullConstantExpr}

InitJoin ==
    /\ NDEBUG \in BOOLEAN
    /\ draft \in {"join.hpp", "nested_loop_join.hpp"}
    /\ loopElided \in (IF draft = "join.hpp" THEN {FALSE} ELSE BOOLEAN)
    /\ predicate_ \in (IF draft = "join.hpp" THEN JoinPredicates ELSE {EqualityPredicate})
    /\ left_ \in Children(1)
    /\ right_ \in Children(2)
    /\ materializedLeft_ = <<>>
    /\ pc = "idle"
    /\ totalOutputRows = 0
    /\ rightVector = NewRowVector(0)
    /\ rightCount = 0
    /\ out \in {0, 1}
    /\ ret = 0
    /\ calls = 0
    /\ delivered = 0
    /\ buildNextCalls = 0
    /\ buildCallsAtFirstReturn = 0
    /\ listAtFirstReturn = <<>>
    /\ undefinedAccess = FALSE
    /\ BitmaskIdle
    /\ PredIdle
    /\ StoreIdle

NextJoin ==
    \/ CallNext
    \/ MaterializeStep
    \/ ProbeFirst
    \/ \E ub \in Undefined, crash \in BOOLEAN : LoopIteration(ub, crash)
    \/ Spin
    \/ SkipLoop

SpecJoin == InitJoin /\ [][NextJoin]_vars

\* every step of a running program is eventually taken
FairSpecJoin == SpecJoin /\ WF_vars(NextJoin)

(***************************************************************************)
(* NullBitmap and ColumnBuffer (engine/physical_operator.hpp).  A bitmap   *)
(* is a byte array with one bit per row, 1 = valid and 0 = null, or is     *)
(* absent.  A data slot holds what was last stored in it, with the type    *)
(* it was stored as, or Unwritten: the bytes of the backing storage as     *)
(* the allocation left them.                                               *)
(***************************************************************************)
MaxCapacity == 2      \* row slots of a ColumnBuffer

\* NullBitmap(): bitmap_ = nullptr
NoBitmap == [isNullptr |-> TRUE, bytes |-> <<>>]

\* the bitmap createRowVectorForSchema attaches: (capacity + 7) / 8 bytes of 0xFF
ValidBitmap(capacity) ==
    [isNullptr |-> FALSE, bytes |-> [b \in 0 .. ((capacity + 7) \div 8) - 1 |-> 255]]

NullBitmap_isNull(bitmap_, index) ==
    IF bitmap_.isNullptr THEN FALSE
    ELSE BitAnd8(bitmap_.bytes[index \div 8], Shl1(index % 8)) = 0

NullBitmap_setNull(bitmap_, index) ==
    IF bitmap_.isNullptr THEN bitmap_
    ELSE [bitmap_ EXCEPT !.bytes[index \div 8] = BitAnd8(@, BitNot8(Shl1(index % 8)))]

NullBitmap_clearNull(bitmap_, index) ==
    IF bitmap_.isNullptr THEN bitmap_
    ELSE [bitmap_ EXCEPT !.bytes[index \div 8] = BitOr8(@, Shl1(index % 8))]

Unwritten == [written |-> FALSE, type |-> "none", value |-> 0]

Stored(T, value) == [written |-> TRUE, type |-> T, value |-> value]

\* ColumnBuffer(colId, type, data, capacity, nullBitmap): count starts at 0
ColumnBuffer(colId, type, capacity, nullBitmap) ==
    [columnId_   |-> colId,
     type_       |-> type,
     count       |-> 0,
     data_       |-> [i \in 0 .. capacity - 1 |-> Unwritten],
     nullBitmap_ |-> nullBitmap,
     capacity_   |-> capacity]

ColumnBuffer_isNull(col, index) == NullBitmap_isNull(col.nullBitmap_, index)

ColumnBuffer_setNull(col, index) ==
    [col EXCEPT !.nullBitmap_ = NullBitmap_setNull(@, index)]

ColumnBuffer_clearNull(col, index) ==
    [col EXCEPT !.nullBitmap_ = NullBitmap_clearNull(@, index)]

\* the two assertions at the head of writeEntry<T>
writeEntryAsserts(col, T, index) ==
    col.type_ = T /\ index >= 0 /\ index < col.capacity_

\* writeEntry<T>(index, value): the column after the call and how the call ended.
\* Where an assertion would fail and assertions are compiled out, the store is
\* undefined: the process dies (ub = "CRASH") or goes on, the value landing in the
\* slot if there is one, and count advancing as the code after the store says
writeEntry(col, T, index, value, ndebug, ub) ==
    LET stored == [col EXCEPT
                      !.data_ = IF index \in DOMAIN @
                                THEN [@ EXCEPT ![index] = Stored(T, value)] ELSE @,
                      !.count = IF index >= @ THEN index + 1 ELSE @]
    IN  IF writeEntryAsserts(col, T, index) THEN [st |-> "ok", col |-> stored]
        ELSE IF ~ndebug THEN [st |-> "ABORT", col |-> col]
        ELSE IF ub = "CRASH" THEN [st |-> "CRASH", col |-> col]
        ELSE [st |-> "ok", col |-> stored]

(***************************************************************************)
(* CsvDataFileReader (storage/csv_data_file_reader.cpp).  A file is its    *)
(* sequence of lines, each a sequence of characters, and whether the last  *)
(* line ends with a newline; a file that cannot be opened is NoFile.  The  *)
(* std::ifstream is the number of lines consumed (pos) and its eofbit and  *)
(* failbit.  headerLine is bookkeeping: the number of the line readBatch   *)
(* consumed as the header, 0 if none yet.                                  *)
(***************************************************************************)
NoFile == [exists |-> FALSE, lines |-> <<>>, terminated |-> TRUE]

File(lines, terminated) == [exists |-> TRUE, lines |-> lines, terminated |-> terminated]

\* CsvDataFileReader(filePath, schema, tableId): a failed open sets failbit and eof_
CsvDataFileReader(f) ==
    [is_open      |-> f.exists,
     pos          |-> 0,
     eofbit       |-> FALSE,
     failbit      |-> ~f.exists,
     header_read_ |-> FALSE,
     eof_         |-> ~f.exists,
     headerLine   |-> 0]

\* file_.good()
good(rd) == ~rd.eofbit /\ ~rd.failbit

hasMore(rd) == ~rd.eof_ /\ rd.is_open /\ good(rd)

\* A variant of reset that keeps header_read_ (not the code's reset): the header
\* line would be read as a data row after the reset
resetKeepsHeaderRead(rd) ==
    IF rd.is_open
    THEN [rd EXCEPT !.eofbit = FALSE, !.failbit = FALSE, !.pos = 0, !.eof_ = FALSE]
    ELSE [rd EXCEPT !.eof_ = FALSE]

reset(rd) ==
    LET rewound == IF rd.is_open
                   THEN [rd EXCEPT !.eofbit = FALSE, !.failbit = FALSE, !.pos = 0]
                   ELSE rd
    IN  [rewound EXCEPT !.header_read_ = FALSE, !.eof_ = FALSE, !.headerLine = 0]

\* std::getline(file_, line): fails on a stream that is not good or has nothing
\* left (setting eofbit and failbit); reading a last line that has no newline
\* succeeds and sets eofbit
getline(rd, f) ==
    IF ~good(rd)
    THEN [ok |-> FALSE, line |-> <<>>, rd |-> [rd EXCEPT !.failbit = TRUE]]
    ELSE IF rd.pos >= Len(f.lines)
    THEN [ok |-> FALSE, line |-> <<>>, rd |-> [rd EXCEPT !.eofbit = TRUE, !.failbit = TRUE]]
    ELSE [ok   |-> TRUE,
          line |-> f.lines[rd.pos + 1],
          rd   |-> [rd EXCEPT !.pos = @ + 1,
                              !.eofbit = (rd.pos + 1 = Len(f.lines) /\ ~f.terminated)]]

separator_ == ","

\* the loop of parseCSVLine from character i on
RECURSIVE parseCSVLineFrom(_, _, _, _, _)
parseCSVLineFrom(line, i, fields, field, inQuotes) ==
    IF i > Len(line) THEN Append(fields, field)
    ELSE LET c == line[i]
         IN  IF c = "\"" THEN parseCSVLineFrom(line, i + 1, fields, field, ~inQuotes)
             ELSE IF c = separator_ /\ ~inQuotes
             THEN parseCSVLineFrom(line, i + 1, Append(fields, field), <<>>, inQuotes)
             ELSE parseCSVLineFrom(line, i + 1, fields, Append(field, c), inQuotes)

parseCSVLine(line) == parseCSVLineFrom(line, 1, <<>>, <<>>, FALSE)

\* std::stoi / std::stoll: the number the leading digits spell; without a leading
\* digit std::invalid_argument is thrown
Digits == {"1", "2"}

DigitValue(c) == IF c = "1" THEN 1 ELSE 2

RECURSIVE stollFrom(_, _, _)
stollFrom(str, i, acc) ==
    IF i <= Len(str) /\ str[i] \in Digits
    THEN stollFrom(str, i + 1, 10 * acc + DigitValue(str[i]))
    ELSE acc

\* the characters std::isspace accepts
Whitespace == {" "}

\* the index of the first character of str that is not whitespace
RECURSIVE skipSpace(_, _)
skipSpace(str, i) ==
    IF i <= Len(str) /\ str[i] \in Whitespace THEN skipSpace(str, i + 1) ELSE i

stoll(str) ==
    LET i == skipSpace(str, 1)
    IN  IF i <= Len(str) /\ str[i] \in Digits
        THEN [ok |-> TRUE, value |-> stollFrom(str, i, 0)]
        ELSE [ok |-> FALSE, value |-> 0]

\* the field texts that stand for NULL
NullTexts == {<<>>, <<"N", "U", "L", "L">>, <<"n", "u", "l", "l">>}

\* the longest text a db_string holds
MaxStringLen == 255

\* parseAndWriteValue<T>(valueStr, colBuf, index), T being an integer type or
\* db_string
parseAndWriteValue(T, valueStr, col, index, ndebug, ub) ==
    IF valueStr \in NullTexts THEN [st |-> "ok", col |-> ColumnBuffer_setNull(col, index)]
    ELSE LET cleared == ColumnBuffer_clearNull(col, index)
             n       == stoll(valueStr)
             len     == IF Len(valueStr) < MaxStringLen THEN Len(valueStr) ELSE MaxStringLen
         IN  IF T = "STRING"
             THEN writeEntry(cleared, T, index, SubSeq(valueStr, 1, len), ndebug, ub)
             ELSE IF ~n.ok THEN [st |-> "THROWN", col |-> cleared]
             ELSE writeEntry(cleared, T, index, n.value, ndebug, ub)

\* the loop over the schema's columns that writes one row
RECURSIVE writeFieldsFrom(_, _, _, _, _, _, _)
writeFieldsFrom(outv, schema, fields, colIdx, rowsRead, ndebug, ub) ==
    IF colIdx >= Len(schema) THEN [st |-> "ok", out |-> outv]
    ELSE LET w == parseAndWriteValue(schema[colIdx + 1].type, fields[colIdx + 1],
                                     outv.columns_[colIdx + 1], rowsRead, ndebug, ub)
             o == [outv EXCEPT !.columns_[colIdx + 1] = w.col]
         IN  IF w.st # "ok" THEN [st |-> w.st, out |-> o]
             ELSE writeFieldsFrom(o, schema, fields, colIdx + 1, rowsRead, ndebug, ub)

\* `while (rowsRead < requestedRows && std::getline(file_, line))`
RECURSIVE readRowsFrom(_, _, _, _, _, _, _, _)
readRowsFrom(rd, f, outv, schema, rowsRead, requestedRows, ndebug, ub) ==
    IF rowsRead >= requestedRows
    THEN [st |-> "ok", rd |-> rd, out |-> outv, rowsRead |-> rowsRead]
    ELSE LET g == getline(rd, f)
         IN  IF ~g.ok THEN [st |-> "ok", rd |-> g.rd, out |-> outv, rowsRead |-> rowsRead]
             ELSE IF g.line = <<>>
             THEN readRowsFrom(g.rd, f, outv, schema, rowsRead, requestedRows, ndebug, ub)
             ELSE LET fields == parseCSVLine(g.line)
                  IN  IF Len(fields) # Len(schema)
                      THEN readRowsFrom(g.rd, f, outv, schema, rowsRead, requestedRows,
                                        ndebug, ub)
                      ELSE LET w == writeFieldsFrom(outv, schema, fields, 0, rowsRead,
                                                    ndebug, ub)
                           IN  IF w.st # "ok"
                               THEN [st |-> w.st, rd |-> g.rd, out |-> w.out,
                                     rowsRead |-> rowsRead]
                               ELSE readRowsFrom(g.rd, f, w.out, schema, rowsRead + 1,
                                                 requestedRows, ndebug, ub)

\* the assertions of readBatch on the caller's RowVector
readBatchAsserts(outv, schema, requestedRows) ==
    /\ Len(outv.columns_) = Len(schema)
    /\ \A c \in 1 .. Len(schema) :
          /\ outv.columns_[c].columnId_ = schema[c].columnId
          /\ outv.columns_[c].type_ = schema[c].type
          /\ outv.columns_[c].capacity_ >= requestedRows

\* `colBuf->count = rowsRead` for every column, then out.setRowCount(rowsRead)
setCounts(outv, rowsRead) ==
    setRowCount([outv EXCEPT !.columns_ =
                    [c \in 1 .. Len(outv.columns_) |->
                        [outv.columns_[c] EXCEPT !.count = rowsRead]]],
                rowsRead)

\* readBatch(out, requestedRows) on a RowVector that meets readBatchAsserts: the
\* reader and out after the call, the value returned, and how the call ended
readBatch(rd, f, outv, schema, requestedRows, ndebug, ub) ==
    IF rd.eof_ \/ ~rd.is_open \/ ~good(rd)
    THEN [st |-> "ok", rd |-> rd, out |-> outv, ret |-> 0]
    ELSE LET h == IF rd.header_read_ THEN [ok |-> TRUE, rd |-> rd]
                  ELSE LET g == getline(rd, f)
                       IN  [ok |-> g.ok,
                            rd |-> IF g.ok
                                   THEN [g.rd EXCEPT !.header_read_ = TRUE,
                                                     !.headerLine = g.rd.pos]
                                   ELSE [g.rd EXCEPT !.eof_ = TRUE]]
         IN  IF ~h.ok THEN [st |-> "ok", rd |-> h.rd, out |-> outv, ret |-> 0]
             ELSE LET l == readRowsFrom(h.rd, f, outv, schema, 0, requestedRows, ndebug, ub)
                  IN  IF l.st # "ok" THEN [st |-> l.st, rd |-> l.rd, out |-> l.out, ret |-> 0]
                      ELSE IF l.rowsRead = 0
                      THEN [st |-> "ok", rd |-> [l.rd EXCEPT !.eof_ = TRUE], out |-> l.out,
                            ret |-> 0]
                      ELSE [st  |-> "ok",
                            rd  |-> IF good(l.rd) THEN l.rd ELSE [l.rd EXCEPT !.eof_ = TRUE],
                            out |-> setCounts(l.out, l.rowsRead),
                            ret |-> l.rowsRead]

\* CatalogTest::createRowVectorForSchema: one ColumnBuffer per schema column, each
\* with a null bitmap of valid bits, added in schema order
RECURSIVE createRowVectorFrom(_, _, _, _)
createRowVectorFrom(rv, schema, capacity, k) ==
    IF k > Len(schema) THEN rv
    ELSE createRowVectorFrom(
             addColumn(rv, ColumnBuffer(schema[k].columnId, schema[k].type, capacity,
                                        ValidBitmap(capacity))),
             schema, capacity, k + 1)

createRowVectorForSchema(schema, capacity) ==
    createRowVectorFrom(NewRowVector(0), schema, capacity, 1)

(***************************************************************************)
(* Specification SpecColumn: calls on one ColumnBuffer, by a caller and by  *)
(* the CSV reader filling it from a file.                                  *)
(***************************************************************************)
ColumnTypes == {"INT64", "INT32"}

\* what a call that breaks an assertion can do in a build without assertions
WriteOutcomes == IF NDEBUG THEN {"CRASH", "GOES_ON"} ELSE {"CRASH"}

WriteEntry(T, index, value, ub) ==
    /\ columnSt = "ok"
    /\ LET r == writeEntry(colBuf, T, index, value, NDEBUG, ub)
       IN  /\ colBuf' = r.col
           /\ columnSt' = r.st
    /\ lastWrite' = [op |-> "writeEntry", index |-> index, countBefore |-> colBuf.count]
    /\ contractKept' = (contractKept /\ writeEntryAsserts(colBuf, T, index))
    /\ UNCHANGED <<NDEBUG, bitmaskVars, predVars, joinVars, rowVec, csvVars, extVars>>

SetNull(index) ==
    /\ columnSt = "ok"
    /\ colBuf' = ColumnBuffer_setNull(colBuf, index)
    /\ lastWrite' = [op |-> "setNull", index |-> index, countBefore |-> colBuf.count]
    /\ UNCHANGED <<columnSt, contractKept>>
    /\ UNCHANGED <<NDEBUG, bitmaskVars, predVars, joinVars, rowVec, csvVars, extVars>>

ClearNull(index) ==
    /\ columnSt = "ok"
    /\ colBuf' = ColumnBuffer_clearNull(colBuf, index)
    /\ lastWrite' = [op |-> "clearNull", index |-> index, countBefore |-> colBuf.count]
    /\ UNCHANGED <<columnSt, contractKept>>
    /\ UNCHANGED <<NDEBUG, bitmaskVars, predVars, joinVars, rowVec, csvVars, extVars>>

\* the lines of the files read into the column: a header, a number, a NULL
HeaderLine == <<"h">>

NullLine == <<"N", "U", "L", "L">>

ColumnFiles ==
    {File(<<HeaderLine>> \o rows, TRUE) :
        rows \in UNION {[1 .. n -> {<<"1">>, NullLine}] : n \in 1 .. MaxCapacity}}

\* a fresh CsvDataFileReader over f reads its first batch into a RowVector that
\* holds the column
CsvReadBatch(f, requestedRows, ub) ==
    /\ columnSt = "ok"
    /\ LET schema == <<[columnId |-> colBuf.columnId_, type |-> colBuf.type_]>>
           r      == readBatch(CsvDataFileReader(f), f, addColumn(NewRowVector(0), colBuf),
                               schema, requestedRows, NDEBUG, ub)
       IN  /\ colBuf' = r.out.columns_[1]
           /\ columnSt' = r.st
    /\ lastWrite' = [op |-> "readBatch", index |-> 0, countBefore |-> colBuf.count]
    /\ UNCHANGED contractKept
    /\ UNCHANGED <<NDEBUG, bitmaskVars, predVars, joinVars, rowVec, csvVars, extVars>>

ColumnIdle ==
    /\ colBuf = <<>>
    /\ columnSt = "ok"
    /\ lastWrite = NoCall
    /\ contractKept = TRUE

RowVectorIdle == rowVec = <<>>

CsvIdle ==
    /\ file = <<>>
    /\ reader = <<>>
    /\ outVec = <<>>
    /\ csvSt = "ok"
    /\ rowsOut = <<>>
    /\ lastRead = NoCall
    /\ resets = 0

InitColumn ==
    /\ NDEBUG \in BOOLEAN
    /\ \E type \in ColumnTypes, capacity \in 1 .. MaxCapacity :
          \E nullBitmap \in {NoBitmap, ValidBitmap(capacity)} :
             colBuf = ColumnBuffer(1, type, capacity, nullBitmap)
    /\ columnSt = "ok"
    /\ lastWrite = NoCall
    /\ contractKept = TRUE
    /\ RowVectorIdle
    /\ CsvIdle
    /\ BitmaskIdle
    /\ PredIdle
    /\ JoinIdle
    /\ ExtIdle

NextColumn ==
    \/ \E T \in ColumnTypes, index \in 0 .. colBuf.capacity_, value \in Values,
          ub \in WriteOutcomes : WriteEntry(T, index, value, ub)
    \/ \E index \in 0 .. colBuf.capacity_ - 1 : SetNull(index)
    \/ \E index \in 0 .. colBuf.capacity_ - 1 : ClearNull(index)
    \/ \E f \in ColumnFiles, requestedRows \in 1 .. colBuf.capacity_, ub \in WriteOutcomes :
          CsvReadBatch(f, requestedRows, ub)

SpecColumn == InitColumn /\ [][NextColumn]_vars

(***************************************************************************)
(* Specification SpecRowVector: columns are added to a RowVector, replaced *)
(* and its row count set.  RowVector declares no constructor and gives     *)
(* rowCount_ no initializer: `RowVector()` starts it at 0, `RowVector rv;` *)
(* leaves it indeterminate.                                                *)
(***************************************************************************)
MaxColumns == 3       \* columns a RowVector is given

\* the columns handed to the RowVector: id 1 or 2, holding 0..MaxRows rows
TestColumns ==
    {createIntColumn(createSequence(1, n), colId) : colId \in ColumnIds, n \in 0 .. MaxRows}

AddColumn(col) ==
    /\ Len(rowVec.columns_) < MaxColumns
    /\ rowVec' = addColumn(rowVec, col)
    /\ UNCHANGED <<NDEBUG, bitmaskVars, predVars, joinVars, columnVars, csvVars, extVars>>

AddOrReplaceColumn(col) ==
    /\ Len(rowVec.columns_) < MaxColumns
    /\ rowVec' = addOrReplaceColumn(rowVec, col)
    /\ UNCHANGED <<NDEBUG, bitmaskVars, predVars, joinVars, columnVars, csvVars, extVars>>

SetRowCount(n) ==
    /\ rowVec' = setRowCount(rowVec, n)
    /\ UNCHANGED <<NDEBUG, bitmaskVars, predVars, joinVars, columnVars, csvVars, extVars>>

InitRowVector ==
    /\ NDEBUG = FALSE
    /\ \E rowCount \in 0 .. MaxRows + 1 : rowVec = NewRowVector(rowCount)
    /\ ColumnIdle
    /\ CsvIdle
    /\ BitmaskIdle
    /\ PredIdle
    /\ JoinIdle
    /\ ExtIdle

NextRowVector ==
    \/ \E col \in TestColumns : AddColumn(col)
    \/ \E col \in TestColumns : AddOrReplaceColumn(col)
    \/ \E n \in 0 .. MaxRows : SetRowCount(n)

SpecRowVector == InitRowVector /\ [][NextRowVector]_vars

(***************************************************************************)
(* Specification SpecCsv: a CsvDataFileReader over a one-column INT64      *)
(* schema reads a file batch by batch into a RowVector its caller reuses,  *)
(* and is reset.                                                           *)
(***************************************************************************)
MaxLines == 3         \* lines of a file
MaxBatch == 2         \* largest batch size a caller asks for
MaxResets == 1        \* reset() calls a caller makes

CsvSchema == <<[columnId |-> 1, type |-> "INT64"]>>

\* the lines a file is made of: an empty line, the header, two numbers, a line with
\* one field too many, and a quoted field that holds the separator
LineChoices ==
    {<<>>, HeaderLine, <<"1">>, <<"2">>, <<"1", ",", "2">>, <<"\"", "1", ",", "2", "\"">>}

\* the contents of up to MaxLines lines
CsvContents == UNION {[1 .. n -> LineChoices] : n \in 0 .. MaxLines}

\* every file with these contents; a last line without newline is not empty
CsvFiles ==
    {NoFile}
       \cup {File(lines, TRUE) : lines \in CsvContents}
       \cup {File(lines, FALSE) :
                lines \in {l \in CsvContents : l # <<>> /\ l[Len(l)] # <<>>}}

\* what a caller reads in row r of the RowVector: NULL or the value of each column
Cell(col, r) ==
    IF ColumnBuffer_isNull(col, r) THEN [null |-> TRUE, value |-> 0]
    ELSE [null |-> FALSE, value |-> col.data_[r].value]

RowAt(outv, r) == [c \in 1 .. Len(outv.columns_) |-> Cell(outv.columns_[c], r)]

RowsOf(outv, n) == [r \in 1 .. n |-> RowAt(outv, r - 1)]

\* where the reader stood when reset() was last called on it: before any line
\* was read, after a readBatch that returned 0, or in between
ResetPoint == IF lastRead.op = "none" THEN "never" ELSE lastRead.resetPoint

ReadBatch(requestedRows) ==
    /\ csvSt = "ok"
    /\ readBatchAsserts(outVec, CsvSchema, requestedRows)
    /\ LET r == readBatch(reader, file, outVec, CsvSchema, requestedRows, NDEBUG, "CRASH")
       IN  /\ reader' = r.rd
           /\ outVec' = r.out
           /\ csvSt' = r.st
           /\ rowsOut' = rowsOut \o RowsOf(r.out, r.ret)
           /\ lastRead' = [op |-> "readBatch", requested |-> requestedRows, ret |-> r.ret,
                           resetPoint |-> ResetPoint]
    /\ UNCHANGED <<file, resets>>
    /\ UNCHANGED <<NDEBUG, bitmaskVars, predVars, joinVars, columnVars, rowVec, extVars>>

Reset ==
    /\ csvSt = "ok"
    /\ resets < MaxResets
    /\ reader' = reset(reader)
    /\ rowsOut' = <<>>
    /\ lastRead' = [op |-> "reset",
                    resetPoint |-> IF lastRead.op = "readBatch" /\ lastRead.ret = 0
                                   THEN "end"
                                   ELSE IF reader.pos = 0 THEN "start" ELSE "middle"]
    /\ resets' = resets + 1
    /\ UNCHANGED <<file, outVec, csvSt>>
    /\ UNCHANGED <<NDEBUG, bitmaskVars, predVars, joinVars, columnVars, rowVec, extVars>>

InitCsv ==
    /\ NDEBUG = FALSE
    /\ file \in CsvFiles
    /\ reader = CsvDataFileReader(file)
    /\ outVec = createRowVectorForSchema(CsvSchema, MaxBatch)
    /\ csvSt = "ok"
    /\ rowsOut = <<>>
    /\ lastRead = NoCall
    /\ resets = 0
    /\ ColumnIdle
    /\ RowVectorIdle
    /\ BitmaskIdle
    /\ PredIdle
    /\ JoinIdle
    /\ ExtIdle

NextCsv ==
    \/ \E requestedRows \in 1 .. MaxBatch : ReadBatch(requestedRows)
    \/ Reset

SpecCsv == InitCsv /\ [][NextCsv]_vars

(***************************************************************************)
(* One field of a CSV line on its way into a column: the line is split by  *)
(* parseCSVLine and its field handed to parseAndWriteValue, as readBatch   *)
(* does for every column of every row.                                     *)
(***************************************************************************)
FieldTypes == {"INT64", "STRING"}

\* the texts of a field: empty, NULL and null, NULL with a blank before or after
\* it, a number, a number after a blank, a letter, a blank
FieldTexts ==
    {<<>>, NullLine, <<"n", "u", "l", "l">>, <<" ">> \o NullLine, NullLine \o <<" ">>,
     <<"1">>, <<" ", "1">>, <<"a">>, <<" ">>}

ParseField(line, index) ==
    /\ columnSt = "ok"
    /\ LET fields == parseCSVLine(line)
           r      == parseAndWriteValue(colBuf.type_, fields[1], colBuf, index, NDEBUG,
                                        "CRASH")
       IN  /\ Len(fields) = 1
           /\ colBuf' = r.col
           /\ columnSt' = r.st
           /\ lastWrite' = [op |-> "parseAndWriteValue", index |-> index,
                            countBefore |-> colBuf.count, text |-> fields[1]]
    /\ UNCHANGED contractKept
    /\ UNCHANGED <<NDEBUG, bitmaskVars, predVars, joinVars, rowVec, csvVars, extVars>>

InitField ==
    /\ NDEBUG \in BOOLEAN
    /\ \E type \in FieldTypes : colBuf = ColumnBuffer(1, type, MaxCapacity,
                                                      ValidBitmap(MaxCapacity))
    /\ columnSt = "ok"
    /\ lastWrite = NoCall
    /\ contractKept = TRUE
    /\ RowVectorIdle
    /\ CsvIdle
    /\ BitmaskIdle
    /\ PredIdle
    /\ JoinIdle
    /\ ExtIdle

NextField == \E line \in FieldTexts, index \in 0 .. MaxCapacity - 1 : ParseField(line, index)

SpecField == InitField /\ [][NextField]_vars

(***************************************************************************)
(* SQLInterpreter (planner/interpreter.cpp).  The catalog is the           *)
(* MockQueryCatalog of the interpreter tests.  A function that can throw   *)
(* returns a record whose st is "ok" or the class of the exception.  The   *)
(* interpreter builds ColumnRefExpr with a type and wraps operands in      *)
(* CastExpr; neither is defined in engine/predicate_expr.hpp, so both are  *)
(* taken from their use in lowerCondition and InterpreterTest.SelectWithCast. *)
(***************************************************************************)
\* the tables of the tests, in the order addTable is called: users (SetUp),
\* orders (AmbiguousColumnError), test_table (SelectWithCast), and a table with a
\* BOOL column
CatalogTables ==
    << [name |-> "users",
        columns |-> << <<"id", "INT32">>, <<"name", "STRING">>, <<"age", "INT32">> >>],
       [name |-> "orders",
        columns |-> << <<"id", "INT32">>, <<"user_id", "INT32">>, <<"amount", "DOUBLE">> >>],
       [name |-> "test_table", columns |-> << <<"id", "INT64">> >>],
       [name |-> "flags", columns |-> << <<"flag", "BOOL">> >>] >>

TableNames == {CatalogTables[t].name : t \in 1 .. Len(CatalogTables)}

\* MockQueryCatalog::getTable
getTable(name) ==
    IF name \in TableNames
    THEN [has_value |-> TRUE,
          value |-> CatalogTables[CHOOSE t \in 1 .. Len(CatalogTables) :
                                     CatalogTables[t].name = name]]
    ELSE [has_value |-> FALSE, value |-> <<>>]

\* the number of columns addTable has numbered before table t: nextColumnId_ - 1
RECURSIVE columnsBefore(_)
columnsBefore(t) ==
    IF t <= 1 THEN 0 ELSE columnsBefore(t - 1) + Len(CatalogTables[t - 1].columns)

ColumnId(id, name, tableName) == [id_ |-> id, name_ |-> name, tableId_ |-> tableName]

\* Schema::getColumnByName on the schema of a table
getColumnByName(tableMeta, columnName) ==
    \E c \in 1 .. Len(tableMeta.columns) : tableMeta.columns[c][1] = columnName

\* MockQueryCatalog::resolveColumn
resolveColumn(tableName, columnName) ==
    LET t == getTable(tableName)
    IN  IF t.has_value /\ getColumnByName(t.value, columnName)
        THEN LET tIdx == CHOOSE k \in 1 .. Len(CatalogTables) :
                             CatalogTables[k].name = tableName
                 c    == CHOOSE k \in 1 .. Len(t.value.columns) :
                             t.value.columns[k][1] = columnName
             IN  [has_value |-> TRUE,
                  value |-> ColumnId(columnsBefore(tIdx) + c, columnName, tableName)]
        ELSE [has_value |-> FALSE, value |-> <<>>]

\* MockQueryCatalog::getColumnType: by the table name and column name of the id
getColumnType(columnId) ==
    LET t == getTable(columnId.tableId_).value
        c == CHOOSE k \in 1 .. Len(t.columns) : t.columns[k][1] = columnId.name_
    IN  t.columns[c][2]

\* ---- the statement
NoExpr == [kind |-> "none"]

AstColumnRef(table, name) == [kind |-> "ColumnRef", table |-> table, name |-> name]

AstConstant(ctype, value) == [kind |-> "Constant", ctype |-> ctype, value |-> value]

AstCondition(op, left, right) ==
    [kind |-> "Condition", op |-> op, left |-> left, right |-> right]

SelectFrom(tables, columns, selectAll, where) ==
    [tables |-> tables, columns |-> columns, selectAll |-> selectAll, where |-> where]

\* ---- exceptions
Threw(exception) == [st |-> exception, value |-> <<>>]

Ok(value) == [st |-> "ok", value |-> value]

\* buildSelectContext: the tables in scope (no statement here has an alias)
buildSelectContext(selectFrom) ==
    IF \E k \in 1 .. Len(selectFrom.tables) : ~getTable(selectFrom.tables[k]).has_value
    THEN Threw("UnresolvedColumnException")
    ELSE Ok([tables |-> {selectFrom.tables[k] : k \in 1 .. Len(selectFrom.tables)}])

\* QueryContext::getCanonicalTableName
getCanonicalTableName(context, tableOrAlias) ==
    IF tableOrAlias \in context.tables
    THEN [has_value |-> TRUE, value |-> tableOrAlias]
    ELSE [has_value |-> FALSE, value |-> ""]

\* SQLInterpreter::resolveColumnRef
resolveColumnRef(columnRef, context) ==
    IF columnRef.table # ""
    THEN LET actualTableName == getCanonicalTableName(context, columnRef.table)
         IN  IF ~actualTableName.has_value THEN Threw("UnresolvedColumnException")
             ELSE LET columnId == resolveColumn(actualTableName.value, columnRef.name)
                  IN  IF ~columnId.has_value THEN Threw("UnresolvedColumnException")
                      ELSE Ok(columnId.value)
    ELSE LET matchingTables ==
                 {tableName \in context.tables :
                     getColumnByName(getTable(tableName).value, columnRef.name)}
         IN  IF matchingTables = {} THEN Threw("UnresolvedColumnException")
             ELSE IF Cardinality(matchingTables) > 1 THEN Threw("UnresolvedColumnException")
             ELSE LET columnId == resolveColumn(CHOOSE tableName \in matchingTables : TRUE,
                                                columnRef.name)
                  IN  IF ~columnId.has_value THEN Threw("UnresolvedColumnException")
                      ELSE Ok(columnId.value)

\* ColumnRefExpr(colId, colType), the typed node the interpreter builds
TypedColumnRefExpr(columnId, type) ==
    [kind |-> "ColumnRefExpr", columnId_ |-> columnId, type_ |-> type]

\* CastExpr(targetType, child)
CastExpr(type, expr) == [kind |-> "CastExpr", type_ |-> type, expr_ |-> expr]

\* SQLInterpreter::lowerConstant
lowerConstant(constant) ==
    CASE constant.ctype = "ConstantInt32"  -> Ok(ConstantExpr("INT32", constant.value))
      [] constant.ctype = "ConstantInt64"  -> Ok(ConstantExpr("INT64", constant.value))
      [] constant.ctype = "ConstantDouble" -> Ok(ConstantExpr("DOUBLE", constant.value))
      [] constant.ctype = "ConstantString" -> Ok(ConstantExpr("STRING", constant.value))
      [] constant.ctype = "ConstantNull"   -> Ok(NullConstantExpr)
      [] constant.ctype = "ConstantBool"   -> Ok(ConstantExpr("BOOL", constant.value))
      [] OTHER                             -> Threw("InternalSQLError")

\* DataType::isIntegral
isIntegral(type) == type \in {"INT32", "INT64", "BOOL"}

\* getCommonType(left, right)
getCommonType(left, right) ==
    IF left = right THEN Ok(left)
    ELSE IF left = "INT32" /\ right = "INT64" THEN Ok("INT64")
    ELSE IF left = "INT64" /\ right = "INT32" THEN Ok("INT64")
    ELSE IF isIntegral(left) /\ right = "DOUBLE" THEN Ok("DOUBLE")
    ELSE IF left = "DOUBLE" /\ isIntegral(right) THEN Ok("DOUBLE")
    ELSE IF left = "BOOL" /\ isIntegral(right) THEN Ok(right)
    ELSE IF isIntegral(left) /\ right = "BOOL" THEN Ok(left)
    ELSE Threw("InternalSQLError")

\* the comparison branch of lowerCondition on two lowered operands
lowerComparison(op, left, right) ==
    IF left.kind \notin {"ColumnRefExpr", "ConstantExpr"} THEN Threw("InternalSQLError")
    ELSE IF right.kind \notin {"ColumnRefExpr", "ConstantExpr"} THEN Threw("InternalSQLError")
    ELSE LET compareType == getCommonType(left.type_, right.type_)
         IN  IF compareType.st # "ok" THEN compareType
             ELSE Ok(CompareExpr(op, compareType.value,
                        IF left.type_ # compareType.value
                        THEN CastExpr(compareType.value, left) ELSE left,
                        IF right.type_ # compareType.value
                        THEN CastExpr(compareType.value, right) ELSE right))

\* SQLInterpreter::lowerPredicate and lowerCondition
RECURSIVE lowerPredicate(_, _)
lowerPredicate(expr, context) ==
    CASE expr.kind = "ColumnRef" ->
            LET colId == resolveColumnRef(expr, context)
            IN  IF colId.st # "ok" THEN colId
                ELSE Ok(TypedColumnRefExpr(colId.value, getColumnType(colId.value)))
      [] expr.kind = "Constant" ->
            IF expr.ctype = "ConstantString" THEN Threw("UnresolvedColumnException")
            ELSE lowerConstant(expr)
      [] expr.kind = "Condition" ->
            IF expr.right = NoExpr THEN Threw("NotYetImplementedError")
            ELSE LET left == lowerPredicate(expr.left, context)
                 IN  IF left.st # "ok" THEN left
                     ELSE LET right == lowerPredicate(expr.right, context)
                          IN  IF right.st # "ok" THEN right
                              ELSE IF expr.op \in {"AND", "OR"}
                              THEN Ok(LogicalExpr(expr.op, left.value, right.value))
                              ELSE lowerComparison(expr.op, left.value, right.value)
      [] OTHER -> Threw("InternalSQLError")

\* the projection loop of handleSelectFrom
RECURSIVE resolveColumnsFrom(_, _, _, _)
resolveColumnsFrom(columns, context, k, projectionColumns) ==
    IF k > Len(columns) THEN Ok(projectionColumns)
    ELSE LET colId == resolveColumnRef(columns[k], context)
         IN  IF colId.st # "ok" THEN colId
             ELSE resolveColumnsFrom(columns, context, k + 1,
                                     Append(projectionColumns, colId.value))

\* SQLInterpreter::handleSelectFrom; interpret rethrows what it throws
handleSelectFrom(selectFrom) ==
    IF selectFrom.tables = <<>> THEN Threw("InternalSQLError")
    ELSE IF Len(selectFrom.tables) > 1 THEN Threw("NotYetImplementedError")
    ELSE LET context == buildSelectContext(selectFrom)
         IN  IF context.st # "ok" THEN context
             ELSE LET predicate == IF selectFrom.where = NoExpr THEN Ok(NoExpr)
                                   ELSE lowerPredicate(selectFrom.where, context.value)
                  IN  IF predicate.st # "ok" THEN predicate
                      ELSE IF selectFrom.selectAll
                      THEN Ok([filter |-> predicate.value, projection |-> "all"])
                      ELSE LET cols == resolveColumnsFrom(selectFrom.columns, context.value,
                                                          1, <<>>)
                           IN  IF cols.st # "ok" THEN cols
                               ELSE Ok([filter |-> predicate.value,
                                        projection |-> cols.value])

(***************************************************************************)
(* The planner as a state machine: a caller hands statements to interpret. *)
(***************************************************************************)
\* operands of a comparison: columns of every type, constants of every kind
AstLeaves ==
    {AstColumnRef("", n) : n \in {"id", "name", "age", "amount", "flag", "nope"}}
      \cup {AstConstant(c, 1) : c \in {"ConstantInt32", "ConstantInt64", "ConstantDouble",
                                       "ConstantBool", "ConstantNull", "ConstantString"}}

AstComparisons == {AstCondition("EQUAL", l, r) : l, r \in AstLeaves}

\* WHERE clauses: none, a comparison, a unary condition, and AND / OR / a
\* comparison over the comparison id = 1
AstWheres ==
    {NoExpr} \cup AstComparisons
      \cup {AstCondition("NOT", AstColumnRef("", "id"), NoExpr)}
      \cup {AstCondition(op, AstCondition("EQUAL", AstColumnRef("", "id"),
                                          AstConstant("ConstantInt32", 1)), r) :
               op \in {"AND", "OR", "LESS"},
               r \in {AstCondition("EQUAL", l, AstConstant("ConstantDouble", 1)) :
                         l \in AstLeaves}}

AstTables ==
    {<<>>, <<"users">>, <<"orders">>, <<"test_table">>, <<"flags">>, <<"nope">>,
     <<"users", "orders">>}

AstColumns ==
    {<<AstColumnRef(t, n)>> : t \in {"", "users", "orders"}, n \in {"id", "amount"}}

Statements ==
    {SelectFrom(tables, columns, FALSE, where) :
        tables \in AstTables, columns \in AstColumns, where \in {NoExpr}}
      \cup {SelectFrom(tables, <<>>, TRUE, where) :
               tables \in AstTables \ {<<>>, <<"nope">>}, where \in AstWheres}

Interpret(selectFrom) ==
    /\ ast' = selectFrom
    /\ planRes' = handleSelectFrom(selectFrom)
    /\ UNCHANGED allButPlan

InitPlan ==
    /\ NDEBUG = FALSE
    /\ ast = <<>>
    /\ planRes = <<>>
    /\ BitmaskIdle
    /\ PredIdle
    /\ JoinIdle
    /\ ColumnIdle
    /\ RowVectorIdle
    /\ CsvIdle
    /\ RestIdlePlan

NextPlan == \E selectFrom \in Statements : Interpret(selectFrom)

SpecPlan == InitPlan /\ [][NextPlan]_vars

(***************************************************************************)
(* Parser (parser/parser.cpp) and the REPL (repl.cpp).  A line is the      *)
(* sequence of its tokens, each written as its lexeme; the lexer never     *)
(* throws (what it cannot read becomes the Unknown token "?").  A parse    *)
(* function returns the position of the next token and its value, or the   *)
(* ParserException it threw.  Of the statements, SELECT is followed.       *)
(***************************************************************************)
MaxOps == 5           \* operators of a WHERE expression

IdentifierTokens == {"a", "b", "c", "d", "e", "f", "g", "t", "x"}

\* TokenStream::peek, p being the number of the next token
peek(ts, p) == IF p <= Len(ts) THEN ts[p] ELSE "EOF"

\* the position after TokenStream::next
advance(ts, p) == IF p <= Len(ts) THEN p + 1 ELSE p

Parsed(p, value) == [st |-> "ok", p |-> p, value |-> value]

ParserException(p) == [st |-> "ParserException", p |-> p, value |-> <<>>]

\* Parser::parseIdentifier
parseIdentifier(ts, p) ==
    IF peek(ts, p) \notin IdentifierTokens THEN ParserException(advance(ts, p))
    ELSE Parsed(advance(ts, p), peek(ts, p))

\* Parser::parseQualifiedColumnRef: the pair (table name, column name); its part
\* after the second identifier, its part after the first, and the whole
qualifiedColumnRef(token, secondToken) ==
    IF secondToken.st # "ok" THEN secondToken
    ELSE Parsed(secondToken.p, <<token.value, secondToken.value>>)

columnRefAfter(ts, token) ==
    IF token.st # "ok" THEN token
    ELSE IF peek(ts, token.p) = "."
    THEN qualifiedColumnRef(token, parseIdentifier(ts, token.p + 1))
    ELSE Parsed(token.p, <<"", token.value>>)

parseQualifiedColumnRef(ts, p) == columnRefAfter(ts, parseIdentifier(ts, p))

\* Parser::expectToken
expectToken(ts, p, expected) ==
    IF peek(ts, p) # expected THEN ParserException(p) ELSE Parsed(p + 1, <<>>)

\* std::numeric_limits<int>::max()
INT_MAX == 2147483647

getPrecedence(type) ==
    IF type \in {"=", "<"} THEN 3
    ELSE IF type = "AND" THEN 2
    ELSE IF type = "OR" THEN 1
    ELSE 0

\* the CompareOp parseExpression gives a Condition
conditionOp(type) == IF type = "=" THEN "EQUAL" ELSE IF type = "<" THEN "LESS" ELSE type

RECURSIVE parseExpression(_, _), parseExpressionFrom(_, _, _, _)

\* Parser::parseTerm: its column reference, its parenthesised expression once the
\* expression and once the closing parenthesis was read, and the whole
termOfRef(ref) ==
    IF ref.st # "ok" THEN ref
    ELSE Parsed(ref.p, AstColumnRef(ref.value[1], ref.value[2]))

termClosed(closing, result) ==
    IF closing.st # "ok" THEN closing ELSE Parsed(closing.p, result.value)

termInParens(ts, result) ==
    IF result.st # "ok" THEN result
    ELSE termClosed(expectToken(ts, result.p, ")"), result)

parseTerm(ts, p) ==
    IF peek(ts, p) \in IdentifierTokens THEN termOfRef(parseQualifiedColumnRef(ts, p))
    ELSE IF peek(ts, p) = "1" THEN Parsed(p + 1, AstConstant("ConstantInt32", 1))
    ELSE IF peek(ts, p) = "(" THEN termInParens(ts, parseExpression(ts, p + 1))
    ELSE ParserException(advance(ts, p))

\* Parser::parseExpression: where the loop puts the condition of operator token and
\* operand right, left and prevPrecedence being the locals of the loop
attach(token, left, right, prevPrecedence) ==
    IF getPrecedence(token) <= prevPrecedence
    THEN AstCondition(conditionOp(token), left, right)
    ELSE [left EXCEPT !.right = AstCondition(conditionOp(token), left.right, right)]

\* one turn of the loop once the operand right was parsed
parseExpressionWith(ts, token, right, left, prevPrecedence) ==
    IF right.st # "ok" THEN right
    ELSE parseExpressionFrom(ts, right.p, attach(token, left, right.value, prevPrecedence),
                             getPrecedence(token))

\* the loop from the operator at p on
parseExpressionFrom(ts, p, left, prevPrecedence) ==
    IF getPrecedence(peek(ts, p)) <= 0 THEN Parsed(p, left)
    ELSE parseExpressionWith(ts, peek(ts, p), parseTerm(ts, p + 1), left, prevPrecedence)

\* the loop once the first term was parsed
parseExpressionAfter(ts, left) ==
    IF left.st # "ok" THEN left
    ELSE parseExpressionFrom(ts, left.p, left.value, INT_MAX)

parseExpression(ts, p) == parseExpressionAfter(ts, parseTerm(ts, p))

\* Parser::parseWhere
parseWhere(ts, p) ==
    IF peek(ts, p) # "WHERE" THEN Parsed(p, NoExpr) ELSE parseExpression(ts, p + 1)

AstColumn(table, name, alias) == [table |-> table, name |-> name, alias |-> alias]

AstTable(name, alias) == [name |-> name, alias |-> alias]

\* an optional `AS identifier`
parseAlias(ts, p) ==
    IF peek(ts, p) = "AS" THEN parseIdentifier(ts, p + 1) ELSE Parsed(p, "")

\* the loop of parseSelect over the column list: after the alias, after the column
\* reference, and from the comma at p on
RECURSIVE parseColumnsFrom(_, _, _, _)
columnsAfterAlias(ts, ref, alias, columns) ==
    IF alias.st # "ok" THEN alias
    ELSE parseColumnsFrom(ts, alias.p, FALSE,
                          Append(columns, AstColumn(ref.value[1], ref.value[2], alias.value)))

columnsAfterRef(ts, ref, columns) ==
    IF ref.st # "ok" THEN ref
    ELSE columnsAfterAlias(ts, ref, parseAlias(ts, ref.p), columns)

parseColumnsFrom(ts, p, first, columns) ==
    IF ~first /\ peek(ts, p) # "," THEN Parsed(p, columns)
    ELSE columnsAfterRef(ts, parseQualifiedColumnRef(ts, IF first THEN p ELSE p + 1),
                         columns)

\* the loop of parseSelect over the table list, in the same parts
RECURSIVE parseTablesFrom(_, _, _, _)
tablesAfterAlias(ts, token, alias, tables) ==
    IF alias.st # "ok" THEN alias
    ELSE parseTablesFrom(ts, alias.p, FALSE,
                         Append(tables, AstTable(token.value, alias.value)))

tablesAfterName(ts, token, tables) ==
    IF token.st # "ok" THEN token
    ELSE tablesAfterAlias(ts, token, parseAlias(ts, token.p), tables)

parseTablesFrom(ts, p, firstTable, tables) ==
    IF ~firstTable /\ peek(ts, p) # "," THEN Parsed(p, tables)
    ELSE tablesAfterName(ts, parseIdentifier(ts, IF firstTable THEN p ELSE p + 1), tables)

\* Parser::parseSelect, from its end to its start: after the WHERE clause, after the
\* table list, after FROM, after the column list, after SELECT, and the whole
selectAfterWhere(selectAll, columns, tables, where) ==
    IF where.st # "ok" THEN where
    ELSE Parsed(where.p, SelectFrom(tables.value, columns.value, selectAll, where.value))

selectAfterTables(ts, selectAll, columns, tables) ==
    IF tables.st # "ok" THEN tables
    ELSE selectAfterWhere(selectAll, columns, tables, parseWhere(ts, tables.p))

selectAfterFrom(ts, selectAll, columns, from) ==
    IF from.st # "ok" THEN from
    ELSE selectAfterTables(ts, selectAll, columns, parseTablesFrom(ts, from.p, TRUE, <<>>))

selectAfterColumns(ts, selectAll, columns) ==
    IF columns.st # "ok" THEN columns
    ELSE selectAfterFrom(ts, selectAll, columns, expectToken(ts, columns.p, "FROM"))

selectAfterSelect(ts, select) ==
    IF select.st # "ok" THEN select
    ELSE IF peek(ts, select.p) = "*"
    THEN selectAfterColumns(ts, TRUE, Parsed(select.p + 1, <<>>))
    ELSE selectAfterColumns(ts, FALSE, parseColumnsFrom(ts, select.p, TRUE, <<>>))

parseSelect(ts, p) == selectAfterSelect(ts, expectToken(ts, p, "SELECT"))

\* Parser::parseQuery: a value (the AST), an unexpected (the error text), or an
\* exception that leaves the function.  Its part after the try block: an optional
\* semicolon, then the end of the input is expected
queryEnd(ts, p, query) ==
    IF expectToken(ts, p, "EOF").st # "ok"
    THEN [st |-> "ParserException", value |-> <<>>]
    ELSE [st |-> "value", value |-> query.value]

queryAfterTry(ts, query) ==
    IF query.st # "ok" THEN [st |-> "unexpected", value |-> <<>>]
    ELSE queryEnd(ts, IF peek(ts, query.p) = ";" THEN query.p + 1 ELSE query.p, query)

parseQuery(ts) ==
    IF peek(ts, 1) # "SELECT" THEN [st |-> "unexpected", value |-> <<>>]
    ELSE queryAfterTry(ts, parseSelect(ts, 1))

\* ---- the lines typed into the REPL
OperatorTokens == {"=", "AND", "OR"}

TermTokens == <<"a", "b", "c", "d", "e", "f", "g">>

\* the expression whose operators are ops, over the terms a, b, c, ...
ExpressionTokens(ops) ==
    [k \in 1 .. 2 * Len(ops) + 1 |->
        IF k % 2 = 1 THEN TermTokens[(k + 1) \div 2] ELSE ops[k \div 2]]

OperatorSequences == UNION {[1 .. n -> OperatorTokens] : n \in 0 .. MaxOps}

SelectTokens == <<"SELECT", "*", "FROM", "t">>

\* statements with a WHERE clause without parentheses; statements that are valid,
\* with and without a column list, a semicolon, parentheses; lines that are no
\* statement; a valid statement followed by more tokens
Lines ==
    {SelectTokens \o <<"WHERE">> \o ExpressionTokens(ops) : ops \in OperatorSequences}
      \cup {<<>>, SelectTokens, SelectTokens \o <<";">>,
            <<"SELECT", "a", ",", "t", ".", "b", "FROM", "t", ",", "x">>,
            SelectTokens \o <<"WHERE", "(", "a", "=", "1", ")">>,
            SelectTokens \o <<"WHERE", "a", "<", "1", ";">>}
      \cup {<<"FROM">>, <<"?">>, <<"SELECT">>, <<"SELECT", "FROM", "t">>,
            <<"SELECT", "*", "t">>, <<"SELECT", "*", "FROM">>,
            SelectTokens \o <<"WHERE">>, SelectTokens \o <<"WHERE", "(", "a", "=", "1">>,
            SelectTokens \o <<"WHERE", "a", "=">>, SelectTokens \o <<"WHERE", "a", "?", "1">>}
      \cup {SelectTokens \o <<"x">>, SelectTokens \o <<";", ";">>,
            SelectTokens \o <<"WHERE", "a", "=", "1", ")">>,
            SelectTokens \o <<"SELECT">>, SelectTokens \o <<"?">>}

\* one turn of the loop of main: a line is read, parsed, and the AST or the error
\* printed; an exception that leaves parseQuery is caught nowhere and ends the
\* process in std::terminate
ReadLine(ts) ==
    /\ replPc = "prompt"
    /\ input' = ts
    /\ LET result == parseQuery(ts)
       IN  IF ts = <<>> THEN printed' = [kind |-> "prompt"] /\ replPc' = "prompt"
           ELSE IF result.st = "value"
           THEN printed' = [kind |-> "ast", value |-> result.value] /\ replPc' = "prompt"
           ELSE IF result.st = "unexpected"
           THEN printed' = [kind |-> "Error"] /\ replPc' = "prompt"
           ELSE printed' = [kind |-> "none"] /\ replPc' = "terminated"
    /\ UNCHANGED allButParse

\* std::getline fails at the end of the input: main returns 0
EndOfInput ==
    /\ replPc = "prompt"
    /\ replPc' = "exited"
    /\ UNCHANGED <<input, printed>>
    /\ UNCHANGED allButParse

InitParse ==
    /\ NDEBUG = FALSE
    /\ input = <<>>
    /\ printed = <<>>
    /\ replPc = "prompt"
    /\ BitmaskIdle
    /\ PredIdle
    /\ JoinIdle
    /\ ColumnIdle
    /\ RowVectorIdle
    /\ CsvIdle
    /\ RestIdleParse

NextParse ==
    \/ \E ts \in Lines : ReadLine(ts)
    \/ EndOfInput

SpecParse == InitParse /\ [][NextParse]_vars

(***************************************************************************)
(* BufferManager and its BufferHandle (engine/memory.hpp).  A buffer is    *)
(* named by its place in pool_, nullptr is 0.  A handle keeps, beside its  *)
(* two fields, whether it is alive and whether release() was called on it  *)
(* since it last took a buffer.                                            *)
(***************************************************************************)
MaxHandles == 3       \* BufferHandle objects constructed

nullptr == 0

\* the address of the one BufferManager
this == 1

\* BufferHandle::BufferHandle(manager, buffer)
BufferHandle(manager, raw_buffer) ==
    [manager_ |-> manager, buffer_ |-> raw_buffer, alive |-> TRUE, released |-> FALSE]

\* the handle after a move took its fields
movedFrom(handle) == [handle EXCEPT !.manager_ = nullptr, !.buffer_ = nullptr]

\* BufferManager::releaseBuffer
releaseBuffer(available, raw_buffer) == Append(available, raw_buffer)

\* a variant of release that gives the buffer back and keeps the fields
releaseKeepsFields(hs, available, h) ==
    IF hs[h].manager_ # nullptr /\ hs[h].buffer_ # nullptr
    THEN [handles |-> hs, available_ |-> releaseBuffer(available, hs[h].buffer_)]
    ELSE [handles |-> hs, available_ |-> available]

\* BufferHandle::release on handle h: the handles and the free list after it
release(hs, available, h) ==
    IF hs[h].manager_ # nullptr /\ hs[h].buffer_ # nullptr
    THEN [handles    |-> [hs EXCEPT ![h] = movedFrom(hs[h])],
          available_ |-> releaseBuffer(available, hs[h].buffer_)]
    ELSE [handles |-> hs, available_ |-> available]

Alive == {h \in 1 .. Len(handles) : handles[h].alive}

\* the buffers the live handles hold
Held == {handles[h].buffer_ : h \in Alive} \ {nullptr}

\* BufferManager::allocate
Allocate ==
    /\ Len(handles) < MaxHandles
    /\ LET reuse  == available_ # <<>>
           raw_buffer == IF reuse THEN available_[Len(available_)] ELSE Len(pool_) + 1
       IN  /\ available_' = IF reuse THEN SubSeq(available_, 1, Len(available_) - 1)
                            ELSE available_
           /\ pool_' = IF reuse THEN pool_ ELSE Append(pool_, raw_buffer)
           /\ handles' = Append(handles, BufferHandle(this, raw_buffer))
           /\ lastAlloc' = [op |-> "allocate", buffer |-> raw_buffer, freeBefore |-> available_,
                            heldBefore |-> Held, poolBefore |-> Len(pool_)]
    /\ UNCHANGED allButMem

\* BufferHandle(BufferHandle&& other)
MoveConstruct(other) ==
    /\ Len(handles) < MaxHandles
    /\ other \in Alive
    /\ handles' = Append([handles EXCEPT ![other] = movedFrom(handles[other])],
                         BufferHandle(handles[other].manager_, handles[other].buffer_))
    /\ lastAlloc' = [op |-> "move", buffer |-> handles[other].buffer_]
    /\ UNCHANGED <<pool_, available_>>
    /\ UNCHANGED allButMem

\* BufferHandle::operator=(BufferHandle&& other) on handle h
MoveAssign(h, other) ==
    /\ h \in Alive
    /\ other \in Alive
    /\ LET after == release(handles, available_, h)
       IN  IF h # other
           THEN /\ handles' = [after.handles EXCEPT
                                  ![h].manager_ = handles[other].manager_,
                                  ![h].buffer_  = handles[other].buffer_,
                                  ![h].released = FALSE,
                                  ![other]      = movedFrom(handles[other])]
                /\ available_' = after.available_
           ELSE UNCHANGED <<handles, available_>>
    /\ lastAlloc' = [op |-> "assign", buffer |-> handles[other].buffer_]
    /\ UNCHANGED pool_
    /\ UNCHANGED allButMem

\* an explicit call of BufferHandle::release on handle h
Release(h) ==
    /\ h \in Alive
    /\ LET after == release(handles, available_, h)
       IN  /\ handles' = [after.handles EXCEPT ![h].released = TRUE]
           /\ available_' = after.available_
    /\ lastAlloc' = [op |-> "release", buffer |-> handles[h].buffer_,
                     again |-> handles[h].released]
    /\ UNCHANGED pool_
    /\ UNCHANGED allButMem

\* BufferHandle::~BufferHandle on handle h
Destroy(h) ==
    /\ h \in Alive
    /\ LET after == release(handles, available_, h)
       IN  /\ handles' = [after.handles EXCEPT ![h].alive = FALSE]
           /\ available_' = after.available_
    /\ lastAlloc' = [op |-> "destroy", buffer |-> handles[h].buffer_]
    /\ UNCHANGED pool_
    /\ UNCHANGED allButMem

InitMem ==
    /\ NDEBUG = FALSE
    /\ pool_ = <<>>
    /\ available_ = <<>>
    /\ handles = <<>>
    /\ lastAlloc = NoCall
    /\ BitmaskIdle
    /\ PredIdle
    /\ JoinIdle
    /\ ColumnIdle
    /\ RowVectorIdle
    /\ CsvIdle
    /\ RestIdleMem

NextMem ==
    \/ Allocate
    \/ \E other \in 1 .. MaxHandles : MoveConstruct(other)
    \/ \E h, other \in 1 .. MaxHandles : MoveAssign(h, other)
    \/ \E h \in 1 .. MaxHandles : Release(h)
    \/ \E h \in 1 .. MaxHandles : Destroy(h)

SpecMem == InitMem /\ [][NextMem]_vars

(***************************************************************************)
(* Lockfile (storage/lockfile.hpp): several objects on one path, each in a *)
(* process or thread of its own.  flock locks belong to the open file      *)
(* description: every open call creates a new one, a description keeps its *)
(* lock until it is unlocked or closed, and an exclusive lock is refused   *)
(* while another description holds one, that of the same process included. *)
(* A call of lock is one step, except while flock blocks.                  *)
(***************************************************************************)
NumLockfiles == 2     \* Lockfile objects on the path
MaxOpens == 4         \* open calls made
MaxTimestamp == 2     \* distinct values of the clock

Lockfiles == 1 .. NumLockfiles

\* getpid() in the process of Lockfile object o
getpid(o) == 100 + o

\* the line lock writes
LockInfo(o, timestamp) == [pid |-> getpid(o), ts |-> timestamp]

\* the description that holds the flock, 0 when none does
FlockHolder ==
    IF \E d \in 1 .. Len(openFiles) : openFiles[d].locked
    THEN CHOOSE d \in 1 .. Len(openFiles) : openFiles[d].locked
    ELSE 0

OpenFile(o, isOpen, isLocked) == [by |-> o, open |-> isOpen, locked |-> isLocked]

\* Lockfile::lock(block) on object o; openOk is whether open succeeds, timestamp
\* the clock.  open truncates the file and its result replaces fd
lock(o, block, openOk, timestamp) ==
    /\ lockers[o].alive
    /\ lockers[o].pc = "idle"
    /\ Len(openFiles) < MaxOpens
    /\ LET newFd == Len(openFiles) + 1
           free  == FlockHolder = 0
           returned == IF ~openOk THEN "false"
                       ELSE IF free THEN "true"
                       ELSE IF block THEN "false"
                       ELSE "blocked"
       IN  /\ fd' = [fd EXCEPT ![o] = IF returned \in {"true", "blocked"} THEN newFd ELSE -1]
           /\ openFiles' = IF ~openOk THEN openFiles
                           ELSE Append(openFiles,
                                       OpenFile(o, returned \in {"true", "blocked"},
                                                returned = "true"))
           /\ lockfile' = IF ~openOk THEN lockfile
                          ELSE IF returned = "true" THEN <<LockInfo(o, timestamp)>>
                          ELSE <<>>
           /\ lockers' = [lockers EXCEPT
                              ![o].pc = IF returned = "blocked" THEN "flock" ELSE "idle",
                              ![o].ret = returned,
                              ![o].unlocked = FALSE]
           /\ lastLock' = [op |-> "lock", object |-> o, ret |-> returned, block |-> block,
                           contentBefore |-> lockfile, holderBefore |-> FlockHolder]
    /\ UNCHANGED allButLock

\* the flock call of lock(false) returns once no description holds the lock
flockReturns(o, timestamp) ==
    /\ lockers[o].alive
    /\ lockers[o].pc = "flock"
    /\ FlockHolder = 0
    /\ openFiles' = [openFiles EXCEPT ![fd[o]].locked = TRUE]
    /\ lockfile' = <<LockInfo(o, timestamp)>>
    /\ lockers' = [lockers EXCEPT ![o].pc = "idle", ![o].ret = "true"]
    /\ lastLock' = [op |-> "lock", object |-> o, ret |-> "true", block |-> FALSE,
                    contentBefore |-> lockfile, holderBefore |-> FlockHolder]
    /\ UNCHANGED fd
    /\ UNCHANGED allButLock

\* what unlock does to the descriptions and to fd
unlocked(o) ==
    IF fd[o] = -1 THEN [openFiles |-> openFiles, fd |-> fd]
    ELSE [openFiles |-> [openFiles EXCEPT ![fd[o]] = OpenFile(o, FALSE, FALSE)],
          fd        |-> [fd EXCEPT ![o] = -1]]

\* Lockfile::unlock on object o
unlock(o) ==
    /\ lockers[o].alive
    /\ lockers[o].pc = "idle"
    /\ openFiles' = unlocked(o).openFiles
    /\ fd' = unlocked(o).fd
    /\ lockers' = [lockers EXCEPT ![o].unlocked = TRUE]
    /\ lastLock' = [op |-> "unlock", object |-> o, held |-> FlockHolder # 0 /\ FlockHolder = fd[o]]
    /\ UNCHANGED lockfile
    /\ UNCHANGED allButLock

\* Lockfile::~Lockfile on object o
DestroyLockfile(o) ==
    /\ lockers[o].alive
    /\ lockers[o].pc = "idle"
    /\ openFiles' = unlocked(o).openFiles
    /\ fd' = unlocked(o).fd
    /\ lockers' = [lockers EXCEPT ![o].unlocked = TRUE, ![o].alive = FALSE]
    /\ lastLock' = [op |-> "destroy", object |-> o, held |-> FlockHolder # 0 /\ FlockHolder = fd[o]]
    /\ UNCHANGED lockfile
    /\ UNCHANGED allButLock

InitLock ==
    /\ NDEBUG = FALSE
    /\ fd = [o \in Lockfiles |-> -1]
    /\ openFiles = <<>>
    /\ lockfile = <<>>
    /\ lockers = [o \in Lockfiles |->
                     [alive |-> TRUE, pc |-> "idle", ret |-> "none", unlocked |-> FALSE]]
    /\ lastLock = NoCall
    /\ BitmaskIdle
    /\ PredIdle
    /\ JoinIdle
    /\ ColumnIdle
    /\ RowVectorIdle
    /\ CsvIdle
    /\ RestIdleLock

NextLock ==
    \/ \E o \in Lockfiles, block, openOk \in BOOLEAN, timestamp \in 1 .. MaxTimestamp :
          lock(o, block, openOk, timestamp)
    \/ \E o \in Lockfiles, timestamp \in 1 .. MaxTimestamp : flockReturns(o, timestamp)
    \/ \E o \in Lockfiles : unlock(o)
    \/ \E o \in Lockfiles : DestroyLockfile(o)

SpecLock == InitLock /\ [][NextLock]_vars

(***************************************************************************)
(* JsonCatalogManifest::parseManifest (storage/catalog.cpp) and the        *)
(* identifiers of common/types.hpp.  A map is a function on its keys.      *)
(***************************************************************************)
MaxManifestTables == 2    \* tables of a manifest
MaxSchemaColumns == 2     \* columns of a table

ManifestTableNames == <<"users", "orders", "stock">>

ManifestColumnNames == {"a", "b"}

\* TableId::TableId
TableId(id, name) == [id_ |-> id, name_ |-> name]

\* ColumnId::operator==
ColumnIdEquals(x, y) == x.id_ = y.id_

\* ColumnIdHash::operator(): std::hash<uint64_t> of the id, a function of the id
\* alone (the id itself in libstdc++)
ColumnIdHash(colId) == colId.id_

\* the schemas a table of the manifest can have: no "schema" member, or a list of
\* columns
ManifestSchemas ==
    {[present |-> FALSE, columns |-> <<>>]}
      \cup {[present |-> TRUE, columns |-> cols] :
               cols \in UNION {[1 .. n -> ManifestColumnNames] : n \in 0 .. MaxSchemaColumns}}

\* the k-th table of a manifest: its id is k, its format is valid or not
ManifestTable(k, schema, formatOk) ==
    [name |-> ManifestTableNames[k], id |-> k, id_name |-> ManifestTableNames[k],
     formatOk |-> formatOk, schema |-> schema]

Manifests ==
    UNION {{[k \in 1 .. n |-> ManifestTable(k, schemas[k], formats[k])] :
               schemas \in [1 .. n -> ManifestSchemas], formats \in [1 .. n -> BOOLEAN]} :
           n \in 1 .. MaxManifestTables}

\* the schema loop of parseManifest: nextColumnId starts at 1 in every table
columnIdsOf(tableJson) ==
    [c \in 1 .. Len(tableJson.schema.columns) |->
        ColumnId(c, tableJson.schema.columns[c], TableId(tableJson.id, tableJson.id_name))]

\* meta.column_map: the last column of a name stays
columnMapOf(columnIds) ==
    [n \in {columnIds[c].name_ : c \in 1 .. Len(columnIds)} |->
        columnIds[CHOOSE c \in 1 .. Len(columnIds) :
                     /\ columnIds[c].name_ = n
                     /\ \A c2 \in (c + 1) .. Len(columnIds) : columnIds[c2].name_ # n]]

\* the TableMetadata parseManifest builds of a table
TableMetadata(tableJson) ==
    [name       |-> tableJson.name,
     id         |-> TableId(tableJson.id, tableJson.id_name),
     schema     |-> [columnIds |-> columnIdsOf(tableJson)],
     column_map |-> columnMapOf(columnIdsOf(tableJson))]

\* the loop of parseManifest over the tables from the k-th on: an invalid format
\* makes it return false with the tables read so far in the maps
RECURSIVE parseTables(_, _, _, _)
parseTables(tables, k, byName, byId) ==
    IF k > Len(tables) THEN [ret |-> TRUE, byName |-> byName, byId |-> byId]
    ELSE IF ~tables[k].formatOk THEN [ret |-> FALSE, byName |-> byName, byId |-> byId]
    ELSE parseTables(tables, k + 1,
                     (tables[k].name :> TableMetadata(tables[k])) @@ byName,
                     (tables[k].id :> TableMetadata(tables[k])) @@ byId)

\* JsonCatalogManifest::parseManifest on the manifest m
parseManifest(m) ==
    /\ manifest' = m
    /\ tables_by_name_' = parseTables(m, 1, <<>>, <<>>).byName
    /\ tables_by_id_' = parseTables(m, 1, <<>>, <<>>).byId
    /\ loaded_' = parseTables(m, 1, <<>>, <<>>).ret
    /\ UNCHANGED allButCatalog

InitCatalog ==
    /\ NDEBUG = FALSE
    /\ manifest = <<>>
    /\ tables_by_name_ = <<>>
    /\ tables_by_id_ = <<>>
    /\ loaded_ = FALSE
    /\ BitmaskIdle
    /\ PredIdle
    /\ JoinIdle
    /\ ColumnIdle
    /\ RowVectorIdle
    /\ CsvIdle
    /\ RestIdleCatalog

NextCatalog == \E m \in Manifests : parseManifest(m)

SpecCatalog == InitCatalog /\ [][NextCatalog]_vars

(***************************************************************************)
(* SQL three-valued logic as a reference: with FALSE < NULL < TRUE, AND is *)
(* the minimum and OR the maximum of its operands.                         *)
(***************************************************************************)
Rank(v) == CASE v = "FALSE" -> 0 [] v = "NULL_VALUE" -> 1 [] v = "TRUE" -> 2

Unrank(n) == <<"FALSE", "NULL_VALUE", "TRUE">>[n + 1]

SqlAnd(a, b) == Unrank(IF Rank(a) <= Rank(b) THEN Rank(a) ELSE Rank(b))

SqlOr(a, b) == Unrank(IF Rank(a) >= Rank(b) THEN Rank(a) ELSE Rank(b))

\* the indices both vectors have
Common(a, b) == {i \in 0 .. a.size_ - 1 : i < b.size_}

\* a and b hold the same values on the given indices
SameOn(idx, a, b) == \A i \in idx : get(a, i) = get(b, i)

\* a result vector of length n holding c everywhere
Filled(n, c) == setAll(BitmaskResult(n), c)

\* the in-place combine and the row-wise connective named by lastCombine.op
CombineOf(op, a, b) ==
    IF op \in {"combineAnd", "AND"} THEN combineAnd(a, b) ELSE combineOr(a, b)

SqlOf(op, a, b) ==
    IF op \in {"combineAnd", "AND"} THEN SqlAnd(a, b) ELSE SqlOr(a, b)

\* C6: AND and OR, computed entrywise by combineAnd/combineOr and row by row by
\* LogicalExpr::evaluateRow, follow the SQL three-valued truth tables (FALSE
\* dominates AND, TRUE dominates OR, otherwise NULL if either side is NULL), and
\* are commutative and associative: after a combine call the vector holds the
\* table's value at every index both operands have; swapping the operands, or regrouping with a
\* third operand, gives the same values.
C6_ThreeValuedLogic ==
    LET op  == lastCombine.op
        a   == lastCombine.left
        b   == lastCombine.right
        idx == Common(a, b)
    IN  /\ op \in {"combineAnd", "combineOr"} =>
              /\ \A i \in idx : get(lhs, i) = SqlOf(op, get(a, i), get(b, i))
              /\ SameOn(idx, lhs, CombineOf(op, b, a))
              /\ \A c \in PredicateValue :
                    LET third == Filled(a.size_, c)
                    IN  SameOn(idx, CombineOf(op, lhs, third),
                                    CombineOf(op, a, CombineOf(op, b, third)))
        /\ op \in {"AND", "OR"} =>
              \A i \in idx :
                 LET x == get(a, i)
                     y == get(b, i)
                 IN  /\ lastCombine.rows[i] = SqlOf(op, x, y)
                     /\ lastCombine.rows[i] = LogicalExpr_apply(op, y, x)
                     /\ \A c \in PredicateValue :
                           LogicalExpr_apply(op, lastCombine.rows[i], c)
                              = LogicalExpr_apply(op, x, LogicalExpr_apply(op, y, c))

\* a combineAnd call met NULL AND FALSE in the second packed byte and stored FALSE
C6_Witness ==
    /\ lastCombine.op = "combineAnd"
    /\ \E i \in Common(lastCombine.left, lastCombine.right) :
          /\ i >= 4
          /\ get(lastCombine.left, i) = "NULL_VALUE"
          /\ get(lastCombine.right, i) = "FALSE"
          /\ get(lhs, i) = "FALSE"

\* the entries of the packed bytes beyond size_ (the padding of the last byte)
Padding(r) == {i \in 0 .. 4 * ((r.size_ + 3) \div 4) - 1 : i >= r.size_}

\* C11: combineAnd and combineOr are called on vectors of the same length; then the
\* left vector is updated in place at every index 0..size-1 (each entry from the two
\* values the vectors held at that index before the call), and the right vector, both
\* sizes, the number of packed bytes and the padding entries are unchanged.
C11_InPlace ==
    LET op == lastCombine.op
        a  == lastCombine.left
        b  == lastCombine.right
    IN  (op \in {"combineAnd", "combineOr"} /\ a.size_ = b.size_) =>
            /\ lhs.size_ = a.size_
            /\ DOMAIN lhs.bits_ = DOMAIN a.bits_
            /\ rhs = b
            /\ \A i \in 0 .. a.size_ - 1 : get(lhs, i) = SqlOf(op, get(a, i), get(b, i))
            /\ \A i \in Padding(a) : get(lhs, i) = get(a, i)

\* a combineOr call on two vectors of the full length changed the last entry of the
\* left vector and left an earlier one as it was
C11_Witness ==
    /\ lastCombine.op = "combineOr"
    /\ lastCombine.left.size_ = MaxVecSize
    /\ lastCombine.right.size_ = MaxVecSize
    /\ rhs = lastCombine.right
    /\ get(lhs, MaxVecSize - 1) # get(lastCombine.left, MaxVecSize - 1)
    /\ get(lhs, 0) = get(lastCombine.left, 0)

(***************************************************************************)
(* What a predicate tree says, read off the tree without the index map:    *)
(* the columns it references in the order a pre-order walk first meets     *)
(* them, and the value each operand of a comparison stands for.            *)
(***************************************************************************)
Range(f) == {f[x] : x \in DOMAIN f}

RECURSIVE ColumnOrder(_)
ColumnOrder(e) ==
    CASE e.kind = "ColumnRefExpr" -> <<e.columnId_>>
      [] e.kind = "ConstantExpr"  -> <<>>
      [] OTHER ->
            LET l == ColumnOrder(e.left_)
                r == ColumnOrder(e.right_)
            IN  l \o SelectSeq(r, LAMBDA c : c \notin Range(l))

RECURSIVE ColumnRefNodes(_)
ColumnRefNodes(e) ==
    CASE e.kind = "ColumnRefExpr" -> {e}
      [] e.kind = "ConstantExpr"  -> {}
      [] OTHER -> ColumnRefNodes(e.left_) \cup ColumnRefNodes(e.right_)

\* the batch holds exactly the referenced columns, in the order of the walk, and
\* initializeIndexMap has been called: what a caller owes before evaluating
CallerContract ==
    /\ indexMapInitialized
    /\ [k \in 1 .. Len(buffer.columns_) |-> buffer.columns_[k].columnId_] = ColumnOrder(pred)

ColumnById(buf, c) == CHOOSE col \in Range(buf.columns_) : col.columnId_ = c

OperandType(e, buf) ==
    IF e.kind = "ConstantExpr" THEN e.type_ ELSE ColumnById(buf, e.columnId_).type_

OperandIsNull(e, buf, row) ==
    IF e.kind = "ConstantExpr" THEN e.type_ = "NULL_CONST"
    ELSE ~ColumnById(buf, e.columnId_).nullBitmap[row + 1]

OperandValue(e, buf, row) ==
    IF e.kind = "ConstantExpr" THEN e.value_ ELSE ColumnById(buf, e.columnId_).data[row + 1]

\* a comparison over two leaves, each NULL or of the declared operand type
WellTypedCompare(e, buf, row) ==
    /\ e.kind = "CompareExpr"
    /\ e.op_ \in ComparisonOps
    /\ \A o \in {e.left_, e.right_} :
          /\ o.kind \in {"ColumnRefExpr", "ConstantExpr"}
          /\ OperandIsNull(o, buf, row) \/ OperandType(o, buf) = e.type_

Holds(op, a, b) ==
    \/ op = "EQUAL" /\ a = b
    \/ op = "NOT_EQUAL" /\ a # b
    \/ op = "GREATER" /\ a > b
    \/ op = "LESS" /\ a < b
    \/ op = "GREATER_EQUAL" /\ a >= b
    \/ op = "LESS_EQUAL" /\ a <= b

\* C7: a Compare evaluates to NULL exactly when at least one operand value is NULL,
\* for every comparison operator; with both operands non-NULL it evaluates to TRUE
\* or FALSE according to the operator applied to the two values.
C7_CompareNull ==
    (CallerContract /\ rowRes.row >= 0 /\ WellTypedCompare(pred, buffer, rowRes.row)) =>
        LET l == pred.left_
            r == pred.right_
            i == rowRes.row
        IN  IF OperandIsNull(l, buffer, i) \/ OperandIsNull(r, buffer, i)
            THEN rowRes.val = "NULL_VALUE"
            ELSE rowRes.val = (IF Holds(pred.op_, OperandValue(l, buffer, i),
                                        OperandValue(r, buffer, i))
                               THEN "TRUE" ELSE "FALSE")

\* C8: after initializeIndexMap the column-index map has exactly one entry per
\* distinct referenced ColumnId, the indices are 0..n-1 in order of first encounter
\* in the tree walk, and every ColumnRef node's recorded index is the map entry of
\* its ColumnId.
C8_IndexMap ==
    indexMapInitialized =>
        LET order == ColumnOrder(pred)
            map   == pred.columnIndexMap_
        IN  /\ DOMAIN map = Range(order)
            /\ \A k \in 1 .. Len(order) : map[order[k]] = k - 1
            /\ \A n \in ColumnRefNodes(pred) : n.columnIndex_ = map[n.columnId_]

\* C9: evaluate(batch) returns a vector of length batch.row_count whose entry i
\* equals evaluate_row(batch, i) for every row i.
C9_ModesAgree ==
    (CallerContract /\ evalRes.st # "none") =>
        /\ evalRes.st = "ok"
        /\ evalRes.vec.size_ = buffer.rowCount_
        /\ rowRes.row >= 0 => rowRes.val = get(evalRes.vec, rowRes.row)

\* an operand that supplies a value, and not of the declared operand type
MismatchedOperand(o, type) ==
    o.kind = "ConstantExpr" /\ o.type_ \notin {"NULL_CONST", type}

\* C10: evaluating a Compare whose operand expressions do not supply values of the
\* declared operand type fails rather than producing a predicate value.
C10_TypeError ==
    (/\ pred.kind = "CompareExpr"
     /\ MismatchedOperand(pred.left_, pred.type_) \/ MismatchedOperand(pred.right_, pred.type_)) =>
        /\ evalRes.st # "ok"
        /\ rowRes.val \notin PredicateValue

(***************************************************************************)
(* What a join is to produce, read off its inputs: the rows of each child  *)
(* in arrival order and the SQL truth value of the predicate on a pair.    *)
(***************************************************************************)
RECURSIVE concatRows(_, _)
concatRows(batches, k) ==
    IF k <= Len(batches) THEN batches[k].columns_[1].data \o concatRows(batches, k + 1)
    ELSE <<>>

BuildRows == concatRows(left_.batches_, 1)

ProbeRows == concatRows(right_.batches_, 1)

\* a leaf on build value a and probe value b
LeafIsNull(o) == o.kind = "ConstantExpr" /\ o.type_ = "NULL_CONST"

LeafValue(o, a, b) ==
    IF o.kind = "ConstantExpr" THEN o.value_ ELSE IF o.columnId_ = 1 THEN a ELSE b

RECURSIVE SqlTruth(_, _, _)
SqlTruth(p, a, b) ==
    CASE p.kind = "ColumnRefExpr" -> "TRUE"
      [] p.kind = "ConstantExpr"  -> IF LeafIsNull(p) THEN "NULL_VALUE" ELSE "TRUE"
      [] p.kind = "CompareExpr"   ->
            IF LeafIsNull(p.left_) \/ LeafIsNull(p.right_) THEN "NULL_VALUE"
            ELSE IF Holds(p.op_, LeafValue(p.left_, a, b), LeafValue(p.right_, a, b))
            THEN "TRUE" ELSE "FALSE"
      [] p.kind = "LogicalExpr"   ->
            SqlOf(p.op_, SqlTruth(p.left_, a, b), SqlTruth(p.right_, a, b))

MatchingPairs ==
    {q \in (1 .. Len(BuildRows)) \X (1 .. Len(ProbeRows)) :
        SqlTruth(predicate_, BuildRows[q[1]], ProbeRows[q[2]]) = "TRUE"}

\* the caller is done with the join: next returned 0, or the process died in it
JoinOver == pc \in {"aborted", "crashed"} \/ (pc = "returned" /\ ret = 0)

\* C1: the total number of rows an INNER nested-loop join produces, summed over the
\* next calls until 0 is returned, is the number of (build row, probe row) pairs on
\* which the predicate is TRUE, however the inputs are split into batches.
C1_RowCount ==
    JoinOver => (pc = "returned" /\ delivered = Cardinality(MatchingPairs))

\* C2: every call of the join's next, over children with finitely many batches,
\* returns after finitely many steps.  A call cut short by a failed assertion or by
\* a crash (C5, C8) is left aside: what is asked is that no call runs for ever.
C2_NextReturns == InNext ~> (pc \in {"returned", "aborted", "crashed"})

\* C3: the build child is drained exactly once, during the first call of next: after
\* that call the materialized list holds every build batch once, in arrival order,
\* and later calls neither call next on the build child nor change the list.
C3_BuildOnce ==
    calls >= 1 =>
        /\ listAtFirstReturn = SelectSeq(left_.batches_, LAMBDA b : b.rowCount_ > 0)
        /\ materializedLeft_ = listAtFirstReturn
        /\ buildNextCalls = buildCallsAtFirstReturn

\* the batch size a caller asks for: no child hands out a larger batch
requested_batch_size == MaxRows

C5_EmptySide ==
    (Len(BuildRows) = 0 \/ Len(ProbeRows) = 0) =>
        /\ ~undefinedAccess
        /\ pc \notin {"aborted", "crashed"}
        /\ pc = "returned" => ret = 0

(***************************************************************************)
(* Claims about ColumnBuffer.                                              *)
(***************************************************************************)
Max(a, b) == IF a >= b THEN a ELSE b

\* a slot below count that is neither null-flagged nor holds a value stored with the
\* column's type
Unaccounted(col, i) ==
    /\ ~ColumnBuffer_isNull(col, i)
    /\ ~(i \in DOMAIN col.data_ /\ col.data_[i].written /\ col.data_[i].type = col.type_)

\* C12: after write_entry(i, v) with 0 <= i < capacity and v of the column's type,
\* slot i is not null-flagged, whatever its state was before the write, and count is
\* max(previous count, i + 1).
C12_WriteEntry ==
    (lastWrite.op = "writeEntry" /\ contractKept /\ columnSt = "ok") =>
        /\ ~ColumnBuffer_isNull(colBuf, lastWrite.index)
        /\ colBuf.count = Max(lastWrite.countBefore, lastWrite.index + 1)

\* C13: for every ColumnBuffer reached by write_entry, set_null / clear_null and CSV
\* readBatch calls that keep their preconditions, 0 <= count <= capacity, and every
\* slot i < count is null-flagged or holds a value of the column's type that was
\* written.
C13_ColumnInvariant ==
    (contractKept /\ columnSt = "ok") =>
        /\ 0 <= colBuf.count
        /\ colBuf.count <= colBuf.capacity_
        /\ \A i \in 0 .. colBuf.count - 1 : ~Unaccounted(colBuf, i)

(***************************************************************************)
(* Claims about RowVector.                                                 *)
(***************************************************************************)
\* C14: a RowVector that add_column, add_or_replace_column and set_row_count leave
\* with at least one column has every column's count equal to row_count (a column
\* whose count disagrees with the established row_count is never taken in).
C14_SharedRowCount ==
    \A k \in 1 .. Len(rowVec.columns_) : rowVec.columns_[k].count = rowVec.rowCount_

\* C15: no two columns of a RowVector have the same ColumnId, and the ColumnId-to-index
\* map sends the id of every contained column to the position of that column.
C15_UniqueColumnIds ==
    \A k \in 1 .. Len(rowVec.columns_) :
        /\ \A j \in 1 .. Len(rowVec.columns_) :
              rowVec.columns_[j].columnId_ = rowVec.columns_[k].columnId_ => j = k
        /\ getColumnIndex(rowVec, rowVec.columns_[k].columnId_) = k - 1

\* C16: the callee resets out at entry to next: when the join hands the same
\* rightVector to the probe child call after call, the vector holds after each call
\* that returned rows exactly the columns and rows of the batch just produced.
C16_OutReset ==
    (pc = "loop" /\ rightCount > 0) =>
        rightVector = right_.batches_[right_.currentBatchIndex_]

(***************************************************************************)
(* Claims about the CSV reader.  What a file holds is read off the file    *)
(* itself, by the rules of the specification: the header is the first      *)
(* non-empty line, the data lines are the lines after it, and a data line  *)
(* is a record when it is not blank and has one field per schema column.   *)
(***************************************************************************)
IsPrefix(s, t) == Len(s) <= Len(t) /\ \A i \in 1 .. Len(s) : s[i] = t[i]

\* the number of the first non-empty line, 0 when every line is blank
FirstNonEmpty(f) ==
    IF \A i \in 1 .. Len(f.lines) : f.lines[i] = <<>> THEN 0
    ELSE CHOOSE i \in 1 .. Len(f.lines) :
            /\ f.lines[i] # <<>>
            /\ \A j \in 1 .. i - 1 : f.lines[j] = <<>>

\* no blank line comes before the header
HeaderFirst(f) == f.lines = <<>> \/ f.lines[1] # <<>>

DataLines(f) ==
    IF FirstNonEmpty(f) = 0 THEN <<>>
    ELSE SubSeq(f.lines, FirstNonEmpty(f) + 1, Len(f.lines))

IsRecord(line) == line # <<>> /\ Len(parseCSVLine(line)) = Len(CsvSchema)

FieldValue(field) ==
    IF field \in NullTexts THEN [null |-> TRUE, value |-> 0]
    ELSE [null |-> FALSE, value |-> stoll(field).value]

RowOfLine(line) == [c \in 1 .. Len(CsvSchema) |-> FieldValue(parseCSVLine(line)[c])]

Records(f) == SelectSeq(DataLines(f), IsRecord)

\* the rows of the file, in file order
ExpectedRows(f) == [i \in 1 .. Len(Records(f)) |-> RowOfLine(Records(f)[i])]

\* every field of every record is NULL or a number
WellFormed(f) ==
    \A i \in 1 .. Len(Records(f)) : \A c \in 1 .. Len(CsvSchema) :
        LET field == parseCSVLine(Records(f)[i])[c]
        IN  field \in NullTexts \/ stoll(field).ok

\* the last readBatch call returned 0
EndOfStream == lastRead.op = "readBatch" /\ csvSt = "ok" /\ lastRead.ret = 0

\* C17: reading an opened file whose values are all well formed, with any batch
\* sizes k >= 1, never fails; every batch has at most k rows, and a batch of 0
\* rows comes only once all rows are out; the rows returned so far are, in file
\* order, the first records of the file, and at end of stream they are exactly
\* the records of the file (the data lines with one field per schema column)
C17_ReadToEnd ==
    (file.exists /\ WellFormed(file)) =>
        /\ csvSt = "ok"
        /\ lastRead.op = "readBatch" =>
              /\ 0 <= lastRead.ret /\ lastRead.ret <= lastRead.requested
              /\ lastRead.ret = 0 => rowsOut = ExpectedRows(file)
        /\ IsPrefix(rowsOut, ExpectedRows(file))
        /\ EndOfStream => rowsOut = ExpectedRows(file)

\* the same statement for the files that have no blank line before the header
C17_HeaderFirstOnly == HeaderFirst(file) => C17_ReadToEnd

\* all rows of the file have been returned by readBatch calls
LastRowReturned ==
    lastRead.op = "readBatch" /\ csvSt = "ok" /\ rowsOut = ExpectedRows(file)

\* the files C18 is read on: no blank line before the header, well-formed values
PlainFile(f) == HeaderFirst(f) /\ WellFormed(f)

\* the readBatch call that comes after the last row was returned yields 0 rows
C18_NextReturnsZero ==
    (file.exists /\ PlainFile(file) /\ LastRowReturned) =>
        \A k \in 1 .. MaxBatch :
            readBatch(reader, file, outVec, CsvSchema, k, NDEBUG, "CRASH").ret = 0

\* while rows of the file are still to come, hasMore() is true
C18_MoreBefore ==
    (file.exists /\ PlainFile(file) /\ csvSt = "ok"
        /\ Len(rowsOut) < Len(ExpectedRows(file))) => hasMore(reader)

\* on a file with only a header, and on a file that could not be opened, readBatch
\* returns 0 and hasMore() is false after it; hasMore() is false on an unopened
\* file from the start
C18_NoRows ==
    /\ ~file.exists => ~hasMore(reader)
    /\ (PlainFile(file) /\ ExpectedRows(file) = <<>> /\ lastRead.op = "readBatch") =>
          lastRead.ret = 0 /\ ~hasMore(reader)

\* C18: once the batch that holds the last data row of the file has been returned,
\* also when that batch is exactly full, hasMore() is false and the next readBatch
\* returns 0; before that hasMore() is true; on a header-only file and on a file
\* that could not be opened readBatch returns 0 and hasMore() is false
C18_HasMore ==
    /\ (file.exists /\ PlainFile(file) /\ LastRowReturned) => ~hasMore(reader)
    /\ C18_NextReturnsZero
    /\ C18_MoreBefore
    /\ C18_NoRows

\* what a freshly constructed reader returns on f when it is read row by row
\* into a fresh RowVector: the rows, and how the last call ended
RECURSIVE FreshRun(_, _, _, _)
FreshRun(rd, f, outv, rows) ==
    LET r == readBatch(rd, f, outv, CsvSchema, 1, NDEBUG, "CRASH")
    IN  IF r.st # "ok" \/ r.ret = 0 THEN [st |-> r.st, rows |-> rows]
        ELSE FreshRun(r.rd, f, r.out, rows \o RowsOf(r.out, r.ret))

Fresh(f) ==
    FreshRun(CsvDataFileReader(f), f, createRowVectorForSchema(CsvSchema, MaxBatch), <<>>)

\* C19: after reset() on an opened reader, whenever it was called, hasMore() is
\* true, and the readBatch calls after it return the rows a freshly constructed
\* reader returns on the same file, the header line being skipped again: the rows
\* since the reset are the first rows of the fresh reader, all of them at end of
\* stream, and a call fails only where the fresh reader fails
C19_Reset ==
    (file.exists /\ resets > 0) =>
        /\ lastRead.op = "reset" => hasMore(reader)
        /\ IsPrefix(rowsOut, Fresh(file).rows)
        /\ EndOfStream => rowsOut = Fresh(file).rows
        /\ csvSt # "ok" => Fresh(file).st = csvSt
        /\ reader.header_read_ => reader.headerLine = 1

\* a reader that was reset in the middle of a file that has rows has been read
\* to the end
C19_Witness ==
    /\ file.exists /\ resets > 0
    /\ lastRead.resetPoint = "middle"
    /\ EndOfStream
    /\ Len(rowsOut) > 1

\* C20: the one line the reader discards as the header is the first non-empty
\* line of the file; blank lines before it do not make the header a data row
\* (no call fails on it and no more rows come out than the file has records),
\* and at end of stream no record is missing
C20_Header ==
    (file.exists /\ FirstNonEmpty(file) # 0) =>
        /\ reader.header_read_ => reader.headerLine = FirstNonEmpty(file)
        /\ WellFormed(file) =>
              /\ csvSt = "ok"
              /\ Len(rowsOut) <= Len(ExpectedRows(file))
              /\ EndOfStream => Len(rowsOut) = Len(ExpectedRows(file))

\* the same statement for the files that have no blank line before the header
C20_HeaderFirstOnly == HeaderFirst(file) => C20_Header

(***************************************************************************)
(* Claims about the fields of a CSV line.                                  *)
(***************************************************************************)
\* text without the whitespace before and after it
RECURSIVE TrimLeft(_)
TrimLeft(text) ==
    IF text # <<>> /\ Head(text) \in Whitespace THEN TrimLeft(Tail(text)) ELSE text

RECURSIVE TrimRight(_)
TrimRight(text) ==
    IF text # <<>> /\ text[Len(text)] \in Whitespace
    THEN TrimRight(SubSeq(text, 1, Len(text) - 1)) ELSE text

Trim(text) == TrimRight(TrimLeft(text))

\* the trimmed text is the literal NULL or null
IsNullLiteral(text) == Trim(text) \in {NullLine, <<"n", "u", "l", "l">>}

\* C21: a field is stored as NULL exactly when its trimmed text is the literal
\* NULL or null: such a field is stored, without failure, as NULL, and a field
\* of any other text, the empty one included, is not NULL once it is stored
C21_NullLiteral ==
    lastWrite.op = "parseAndWriteValue" =>
        /\ IsNullLiteral(lastWrite.text) =>
              columnSt = "ok" /\ ColumnBuffer_isNull(colBuf, lastWrite.index)
        /\ (~IsNullLiteral(lastWrite.text) /\ columnSt = "ok") =>
              ~ColumnBuffer_isNull(colBuf, lastWrite.index)

\* the part of C21 that holds: the untrimmed literals NULL and null are stored
\* as NULL, and a text that has a character other than whitespace and is not
\* one of the literals is stored as a value
C21_ExactLiterals ==
    lastWrite.op = "parseAndWriteValue" =>
        /\ lastWrite.text \in {NullLine, <<"n", "u", "l", "l">>} =>
              columnSt = "ok" /\ ColumnBuffer_isNull(colBuf, lastWrite.index)
        /\ (~IsNullLiteral(lastWrite.text) /\ lastWrite.text # <<>> /\ columnSt = "ok") =>
              ~ColumnBuffer_isNull(colBuf, lastWrite.index)

(***************************************************************************)
(* Claims about the rows the join emits.                                   *)
(***************************************************************************)
\* the columns copyMatchedRows writes into out: it counts the matches and copies
\* nothing, and no other statement of next adds a column to out
outColumns == <<>>

\* the rows a caller reads from out after next: rowCount_ rows over its columns
EmittedRows == [r \in 1 .. out |-> [c \in 1 .. Len(outColumns) |-> outColumns[c][r]]]

\* the pairs the join is to emit: probe rows in arrival order and, for one probe
\* row, the matching build rows in the order of the concatenated build batches
RECURSIVE JoinedFrom(_, _)
JoinedFrom(j, i) ==
    IF j > Len(ProbeRows) THEN <<>>
    ELSE IF i > Len(BuildRows) THEN JoinedFrom(j + 1, 1)
    ELSE (IF SqlTruth(predicate_, BuildRows[i], ProbeRows[j]) = "TRUE"
          THEN <<(<<BuildRows[i], ProbeRows[j]>>)>> ELSE <<>>) \o JoinedFrom(j, i + 1)

JoinedRows == JoinedFrom(1, 1)

\* C22: the rows the join emits are the matching (build row, probe row) pairs,
\* ordered by probe row in arrival order and, for one probe row, by build row in
\* the order of the concatenated build batches
C22_RowOrder ==
    (pc = "returned" /\ calls = 1 /\ ret > 0) => EmittedRows = JoinedRows

(***************************************************************************)
(* Claims about the planner.                                               *)
(***************************************************************************)
IntN == {"INT32", "INT64"}

\* the implicit conversion lattice of the specification
TypeLattice(a, b) ==
    IF a = b THEN a
    ELSE IF {a, b} = {"INT32", "INT64"} THEN "INT64"
    ELSE IF {a, b} \in {{"INT32", "DOUBLE"}, {"INT64", "DOUBLE"}} THEN "DOUBLE"
    ELSE IF a = "BOOL" /\ b \in IntN THEN b
    ELSE IF b = "BOOL" /\ a \in IntN THEN a
    ELSE "error"

\* the operand under a cast, and the operand itself where there is no cast
Uncast(e) == IF e.kind = "CastExpr" THEN e.expr_ ELSE e

\* a Compare node is typed by the lattice, with casts exactly where needed
CastsAsLattice(e, common) ==
    /\ common # "error"
    /\ e.type_ = common
    /\ \A operand \in {e.left_, e.right_} :
          /\ operand.type_ = common
          /\ (operand.kind = "CastExpr") <=> (Uncast(operand).type_ # common)
          /\ Uncast(operand).kind # "CastExpr"

\* the Compare nodes of a predicate
RECURSIVE CompareNodes(_)
CompareNodes(e) ==
    CASE e.kind = "CompareExpr" -> {e}
      [] e.kind = "LogicalExpr" -> CompareNodes(e.left_) \cup CompareNodes(e.right_)
      [] OTHER                  -> {}

SpecTyped(e) == CastsAsLattice(e, TypeLattice(Uncast(e.left_).type_, Uncast(e.right_).type_))

\* the plan of the last statement has a WHERE predicate
Lowered == planRes # <<>> /\ planRes.st = "ok" /\ planRes.value.filter # NoExpr

\* C23: in every predicate the planner builds, each Compare node's operand_type is
\* the lattice's common type of its two operand types (a pair outside the lattice
\* is never lowered), a Cast to that type wraps exactly the operands of another
\* type, and both operands of the Compare have that type
C23_CommonType ==
    Lowered => \A e \in CompareNodes(planRes.value.filter) : SpecTyped(e)

\* the lattice getCommonType computes: the specification's, and DOUBLE for BOOL
\* with DOUBLE
CodeLattice(a, b) ==
    IF {a, b} = {"BOOL", "DOUBLE"} THEN "DOUBLE" ELSE TypeLattice(a, b)

CodeTyped(e) == CastsAsLattice(e, CodeLattice(Uncast(e.left_).type_, Uncast(e.right_).type_))

\* what holds of the Compare nodes: they are typed by the lattice of the code
C23_CodeLattice ==
    Lowered => \A e \in CompareNodes(planRes.value.filter) : CodeTyped(e)

\* the tables of the catalog that have a column of this name
TablesWith(tables, columnName) ==
    {tables[k] : k \in {j \in 1 .. Len(tables) :
                          getTable(tables[j]).has_value
                            /\ getColumnByName(getTable(tables[j]).value, columnName)}}

\* the last statement has several known tables in scope and selects one column
SeveralTables ==
    /\ ast # <<>>
    /\ Len(ast.tables) > 1
    /\ \A k \in 1 .. Len(ast.tables) : getTable(ast.tables[k]).has_value
    /\ Len(ast.columns) = 1

\* C24: with several tables in scope, an unqualified column name found in more
\* than one of them makes planning fail, and a reference to the same column
\* qualified by one of the tables is planned, the projection being that table's
\* column
C24_Ambiguous ==
    SeveralTables =>
        LET ref == ast.columns[1]
        IN  /\ (ref.table = "" /\ Cardinality(TablesWith(ast.tables, ref.name)) > 1) =>
                  planRes.st # "ok"
            /\ (ref.table \in TablesWith(ast.tables, ref.name)) =>
                  /\ planRes.st = "ok"
                  /\ planRes.value.projection = <<resolveColumn(ref.table, ref.name).value>>

\* what holds: resolveColumnRef, given a context of several tables, refuses the
\* unqualified name and resolves the qualified one
C24_ResolveColumnRef ==
    SeveralTables =>
        LET ref     == ast.columns[1]
            context == buildSelectContext(ast).value
            colId   == resolveColumnRef(ref, context)
        IN  /\ (ref.table = "" /\ Cardinality(TablesWith(ast.tables, ref.name)) > 1) =>
                  colId.st = "UnresolvedColumnException"
            /\ (ref.table \in TablesWith(ast.tables, ref.name)) =>
                  colId = Ok(resolveColumn(ref.table, ref.name).value)


(***************************************************************************)
(* Claims about the parser and the REPL.                                   *)
(***************************************************************************)
\* C25: whatever line was read (an invalid statement, or a valid one followed by
\* more tokens), parseQuery returned an AST or an error value, the REPL printed the
\* AST or the error and is back at its prompt: it never ended on a query
C25_NeverExits ==
    input # <<>> =>
        /\ replPc # "terminated"
        /\ printed.kind \in {"ast", "Error"}

\* the part of C25 that holds: a line that parseSelect rejects is answered by the
\* error value, and the REPL is back at its prompt
C25_ErrorInsideTry ==
    (input # <<>> /\ (peek(input, 1) # "SELECT" \/ parseSelect(input, 1).st # "ok")) =>
        /\ replPc \in {"prompt", "exited"}
        /\ printed.kind = "Error"

C25_Rejected ==
    /\ input = <<"SELECT", "*", "FROM">>
    /\ printed.kind = "Error"
    /\ replPc = "prompt"

\* ---- the grouping the grammar asks for
\* the operators of a paren-free expression are at its even positions
LowestPrecedence(tokens) ==
    CHOOSE q \in 1 .. 3 :
        /\ \E k \in 1 .. Len(tokens) : getPrecedence(tokens[k]) = q
        /\ \A k \in 1 .. Len(tokens) : getPrecedence(tokens[k]) \in {0} \cup (q .. 3)

\* the rightmost operator of the lowest precedence: where a left-to-right grouping
\* splits the expression
SplitAt(tokens) ==
    CHOOSE k \in 1 .. Len(tokens) :
        /\ getPrecedence(tokens[k]) = LowestPrecedence(tokens)
        /\ \A j \in (k + 1) .. Len(tokens) :
              getPrecedence(tokens[j]) # LowestPrecedence(tokens)

RECURSIVE Grouped(_)
Grouped(tokens) ==
    IF Len(tokens) = 1 THEN AstColumnRef("", tokens[1])
    ELSE AstCondition(conditionOp(tokens[SplitAt(tokens)]),
                      Grouped(SubSeq(tokens, 1, SplitAt(tokens) - 1)),
                      Grouped(SubSeq(tokens, SplitAt(tokens) + 1, Len(tokens))))

\* comparisons joined by AND and OR
IsConditionList(ops) ==
    /\ Len(ops) % 2 = 1
    /\ \A k \in 1 .. Len(ops) : (ops[k] = "=") <=> (k % 2 = 1)

WherePrefix == SelectTokens \o <<"WHERE">>

\* the operators of the WHERE expression of the line read
InputOps == [k \in 1 .. (Len(input) - Len(WherePrefix)) \div 2 |->
                input[Len(WherePrefix) + 2 * k]]

IsConditionLine ==
    /\ Len(input) > Len(WherePrefix)
    /\ InputOps \in OperatorSequences
    /\ IsConditionList(InputOps)
    /\ input = WherePrefix \o ExpressionTokens(InputOps)

\* C29: the AST of a WHERE expression without parentheses groups comparisons
\* tighter than AND, AND tighter than OR, and equal precedence left to right
C29_Precedence ==
    (IsConditionLine /\ printed.kind = "ast") =>
        printed.value.where = Grouped(ExpressionTokens(InputOps))

\* the part of C29 that holds: when the expression joins its comparisons by AND
\* alone or by OR alone
C29_OneConnective ==
    (/\ IsConditionLine
     /\ printed.kind = "ast"
     /\ \E c \in {"AND", "OR"} : \A k \in 1 .. Len(InputOps) : InputOps[k] \in {"=", c})
        => printed.value.where = Grouped(ExpressionTokens(InputOps))

\* also when AND comes before OR
C29_AndThenOr ==
    (/\ IsConditionLine
     /\ printed.kind = "ast"
     /\ InputOps = <<"=", "AND", "=", "OR", "=">>)
        => printed.value.where = Grouped(ExpressionTokens(InputOps))


(***************************************************************************)
(* Claims about the BufferManager.                                         *)
(***************************************************************************)
\* how often buffer b is in the free list, and how many live handles hold it
TimesFree(b) == Cardinality({k \in 1 .. Len(available_) : available_[k] = b})

Holders(b) == Cardinality({h \in Alive : handles[h].buffer_ = b})

\* C26: every buffer of the pool is in the free list exactly once or held by
\* exactly one live handle, never both; allocate returned no buffer a live handle
\* held; a handle released again gave nothing back; the pool grew only when the
\* free list was empty
C26_OneOwner ==
    /\ \A b \in 1 .. Len(pool_) : TimesFree(b) + Holders(b) = 1
    /\ \A k \in 1 .. Len(available_) : available_[k] \in 1 .. Len(pool_)
    /\ \A h \in 1 .. Len(handles) :
          /\ handles[h].buffer_ \in 0 .. Len(pool_)
          /\ (handles[h].released \/ ~handles[h].alive) => handles[h].buffer_ = nullptr
    /\ lastAlloc.op = "allocate" =>
          /\ lastAlloc.buffer \notin lastAlloc.heldBefore
          /\ (Len(pool_) > lastAlloc.poolBefore) <=> (lastAlloc.freeBefore = <<>>)
          /\ lastAlloc.freeBefore # <<>> => lastAlloc.buffer \in 1 .. lastAlloc.poolBefore
    /\ (lastAlloc.op = "release" /\ lastAlloc.again) => lastAlloc.buffer = nullptr

\* a handle was released a second time while its buffer was in the free list and
\* another live handle held another buffer
C26_ReleasedTwice ==
    /\ lastAlloc.op = "release"
    /\ lastAlloc.again
    /\ available_ # <<>>
    /\ Held # {}
    /\ Len(pool_) >= 2


(***************************************************************************)
(* Claims about the Lockfile.                                              *)
(***************************************************************************)
\* object o holds the lock: a description it opened holds the flock
HoldsLock(o) == \E d \in 1 .. Len(openFiles) : openFiles[d].by = o /\ openFiles[d].locked

\* the last lock() of object o returned true and it has not called unlock() since
LockedByLastCall(o) == lockers[o].ret = "true" /\ ~lockers[o].unlocked

\* C27: at most one Lockfile object holds the lock; an object holds it exactly
\* when its last lock() returned true and it has not called unlock() since; after
\* the holder's unlock() or destruction no object holds it
C27_Exclusive ==
    /\ \A o1, o2 \in Lockfiles : (HoldsLock(o1) /\ HoldsLock(o2)) => o1 = o2
    /\ \A o \in Lockfiles : HoldsLock(o) <=> LockedByLastCall(o)
    /\ lastLock.op \in {"unlock", "destroy"} => ~HoldsLock(lastLock.object)

\* the part of C27 that holds: at most one description holds the flock, no two
\* objects were both told they hold it, and an object that calls lock() once at a
\* time (never on an object whose fd is open) holds it exactly when told so
C27_AtMostOne ==
    /\ \A d1, d2 \in 1 .. Len(openFiles) :
          (openFiles[d1].locked /\ openFiles[d2].locked) => d1 = d2
    /\ \A o1, o2 \in Lockfiles : (LockedByLastCall(o1) /\ LockedByLastCall(o2)) => o1 = o2
    /\ \A o \in Lockfiles : LockedByLastCall(o) => (fd[o] # -1 /\ openFiles[fd[o]].locked)

C27_OtherRefused ==
    /\ lastLock.op = "lock"
    /\ lastLock.ret = "false"
    /\ \E o \in Lockfiles : o # lastLock.object /\ LockedByLastCall(o) /\ HoldsLock(o)

\* C28: while a writer holds the lock the file is the one line pid=<pid>
\* ts=<timestamp> that this holder wrote, and a lock() that did not get the lock
\* left the content as it was
C28_Content ==
    /\ \A o \in Lockfiles :
          HoldsLock(o) => (Len(lockfile) = 1 /\ lockfile[1].pid = getpid(o))
    /\ (lastLock.op = "lock" /\ lastLock.ret = "false") =>
          lockfile = lastLock.contentBefore

\* the part of C28 that holds: right after a lock() that returned true the file
\* is the one line of the caller
C28_WrittenOnSuccess ==
    (lastLock.op = "lock" /\ lastLock.ret = "true") =>
        /\ Len(lockfile) = 1
        /\ lockfile[1].pid = getpid(lastLock.object)
        /\ lockfile[1].ts \in 1 .. MaxTimestamp

C28_Written ==
    /\ lastLock.op = "lock"
    /\ lastLock.ret = "true"
    /\ lastLock.contentBefore # <<>>
    /\ lockfile[1].pid # lastLock.contentBefore[1].pid


(***************************************************************************)
(* Claims about the catalog.                                               *)
(***************************************************************************)
\* the columns of the loaded catalog: table name, position, ColumnId
LoadedColumns ==
    UNION {{[table |-> t, position |-> c, colId |-> tables_by_name_[t].schema.columnIds[c]] :
               c \in 1 .. Len(tables_by_name_[t].schema.columnIds)} :
           t \in DOMAIN tables_by_name_}

\* C30: after a manifest is loaded, two ColumnIds compare equal, or hash equal,
\* only if they are the same column of the same table
C30_DistinctColumns ==
    \A x, y \in LoadedColumns :
        (ColumnIdEquals(x.colId, y.colId) \/ ColumnIdHash(x.colId) = ColumnIdHash(y.colId))
            => (x.table = y.table /\ x.position = y.position)

\* the part of C30 that holds: different columns of one table never compare equal
C30_WithinTable ==
    \A x, y \in LoadedColumns :
        (x.table = y.table /\ ColumnIdEquals(x.colId, y.colId)) => x.position = y.position

C30_TwoColumns ==
    /\ loaded_
    /\ \E x, y \in LoadedColumns : x.table = y.table /\ x.position # y.position

====
